---- MODULE Spec2Model ----
(***************************************************************************)
(* Model of the RaceEngineer analysis engine                               *)
(* (src/backend-api/core/analysis_engine.py) and of the processor code     *)
(* that feeds it (src/backend-api/core/f1_processor.py).                   *)
(*                                                                         *)
(* Numbers.  The code computes in float seconds and kilograms.  The model  *)
(* uses scaled integers: times in units of 1e-4 s, fuel masses in units   *)
(* of 0.1 kg, the time loss per kg in units of 1e-3 s/kg, so that a mass   *)
(* times a loss is again in 1e-4 s.  pandas' NaN / NaT is the value NaN,   *)
(* Python's None is the value None.                                        *)
(***************************************************************************)
EXTENDS Integers, Sequences, FiniteSets, TLC

VARIABLES
    laps,        \* the lap table (a DataFrame): a sequence of rows
    race_gaps,   \* the last calculate_race_gaps call: its arguments and result
    fuel_call,   \* the last calculate_fuel_correction call: arguments and result
    deg_call,    \* the last calculate_tyre_degradation call and its result
    telemetry_a, \* the first telemetry trace handed to calculate_ghost_delta
    telemetry_b, \* the second telemetry trace
    ghost_call,  \* the last calculate_ghost_delta call and its result
    loaded,      \* whether a session is loaded (self.laps is not None)
    best_call,   \* the last get_theoretical_best_lap call and its result
    session,     \* self.session of the processor: None or the session fetched
    session_info, \* self.session_info of the processor
    callers,     \* for each caller, the session its last init_session returned
    reply,       \* the response to the request handled last
    last_load,   \* the latest load_session invocation and the laps it left
    rerun        \* a component run twice on one input: the two results

gapVars == <<race_gaps>>
\* What the ghost aligner reads and writes.
ghostVars == <<telemetry_a, telemetry_b, ghost_call>>
\* What the gap engine, and the fuel correction, leave alone.
\* What the processor's theoretical best lap reads and writes beside laps.
bestVars == <<loaded, best_call>>
\* The processor's session, its callers and the response in flight.
procVars == <<session, session_info, callers, reply, last_load>>
notGap == <<fuel_call, deg_call, ghostVars, bestVars, procVars, rerun>>
notFuel == <<race_gaps, deg_call, ghostVars, bestVars, procVars, rerun>>
notDeg == <<race_gaps, fuel_call, ghostVars, bestVars, procVars, rerun>>
notGhost == <<laps, race_gaps, fuel_call, deg_call, bestVars, procVars, rerun>>
notBest == <<race_gaps, fuel_call, deg_call, ghostVars, procVars, rerun>>
\* What a request to the processor leaves alone.
notProc == <<race_gaps, fuel_call, deg_call, ghostVars, best_call, rerun>>
\* What a run of a component on a given input leaves alone.
notRerun ==
    <<laps, race_gaps, fuel_call, deg_call, ghostVars, bestVars, procVars>>
vars ==
    <<laps, race_gaps, fuel_call, deg_call, telemetry_a, telemetry_b, ghost_call,
      loaded, best_call, session, session_info, callers, reply, last_load, rerun>>

----------------------------------------------------------------------------
(* Values *)

\* pandas' missing value (NaN for floats, NaT for timedeltas).
NaN == -1000000000

\* Python's None, as it appears in a result.
None == -2000000000

notna(v) == v # NaN

\* a - b in float arithmetic: NaN propagates.
FSub(a, b) == IF a = NaN \/ b = NaN THEN NaN ELSE a - b

\* The drivers that can have rows in the lap table, with the order of
\* their codes (sort_values compares the codes as strings).
TableDrivers == {"A", "B"}

DriverOrd(d) == CASE d = "A" -> 1 [] d = "B" -> 2 [] OTHER -> 3

----------------------------------------------------------------------------
(* Bounds of the model *)

\* Lap numbers run from 1 to MaxLap.
MaxLap == 2

\* Rows that the provider loads one by one.
MaxRows == 3

LapNumbers == 1 .. MaxLap

----------------------------------------------------------------------------
(* The lap table as the data provider supplies it *)

\* Session time at which driver d completes lap n for a row loaded one by
\* one: 90.0 s per lap, driver B 1.5 s behind driver A.
SessionTime(d, n) == 900000 * n + 15000 * (DriverOrd(d) - 1)

\* A row of the lap table with the columns calculate_race_gaps reads.
GapRow(d, n, t, p) == [Driver |-> d, LapNumber |-> n, Time |-> t, Position |-> p]

\* The concrete scenario of the specification: A at 90.0, 181.0, 273.0 in
\* position 1 and B at 91.5, 183.0, 276.0 in position 2.
ScenarioTime(d) ==
    IF d = "A" THEN <<900000, 1810000, 2730000>>
               ELSE <<915000, 1830000, 2760000>>

ScenarioRows(d) ==
    [n \in 1 .. 3 |-> GapRow(d, n, ScenarioTime(d)[n], DriverOrd(d))]

Reverse(s) == [i \in 1 .. Len(s) |-> s[Len(s) + 1 - i]]

\* The scenario in three row orders: grouped by driver, reversed, and
\* interleaved lap by lap with B first.
ScenarioTables ==
    LET a == ScenarioRows("A")
        b == ScenarioRows("B")
    IN  { a \o b,
          Reverse(a \o b),
          <<b[1], a[1], b[2], a[2], b[3], a[3]>> }

\* The provider appends one row.  Lap numbers are unique per driver; the
\* track position is the rank of the lap's Time among the laps with the
\* same lap number, so it is unique within a lap number and missing when
\* the Time is missing.
LoadLap ==
    /\ ~race_gaps.called
    /\ Len(laps) < MaxRows
    /\ \E d \in TableDrivers, n \in LapNumbers, p \in {1, 2, NaN}, hasTime \in BOOLEAN :
          /\ \A i \in 1 .. Len(laps) :
                ~(laps[i].Driver = d /\ laps[i].LapNumber = n)
          /\ hasTime \/ p = NaN
          /\ p # NaN =>
                \A i \in 1 .. Len(laps) :
                    laps[i].LapNumber = n => laps[i].Position # p
          /\ laps' = Append(laps,
                        GapRow(d, n, IF hasTime THEN SessionTime(d, n) ELSE NaN, p))
    /\ UNCHANGED <<gapVars, notGap>>

\* The provider loads the scenario of the specification in one piece.
LoadScenario ==
    /\ ~race_gaps.called
    /\ laps = <<>>
    /\ laps' \in ScenarioTables
    /\ UNCHANGED <<gapVars, notGap>>

----------------------------------------------------------------------------
(* AnalysisEngine.calculate_race_gaps *)

RowLess(r, s) ==
    \/ DriverOrd(r.Driver) < DriverOrd(s.Driver)
    \/ r.Driver = s.Driver /\ r.LapNumber < s.LapNumber

RECURSIVE InsertRow(_, _)
InsertRow(r, sorted) ==
    IF sorted = <<>> THEN <<r>>
    ELSE IF RowLess(r, Head(sorted)) THEN <<r>> \o sorted
    ELSE <<Head(sorted)>> \o InsertRow(r, Tail(sorted))

\* laps.sort_values(['Driver', 'LapNumber']): a new, sorted table.
RECURSIVE sort_values(_)
sort_values(df) ==
    IF df = <<>> THEN <<>>
    ELSE InsertRow(df[Len(df)], sort_values(SubSeq(df, 1, Len(df) - 1)))

\* laps['CumTime'] = laps['Time'].dt.total_seconds()
CumTime(r) == r.Time

\* Variant: the leader is taken to be the driver in position 2.
leader_laps_second(df) == SelectSeq(df, LAMBDA r : r.Position = 2)

\* laps[laps['Position'] == 1.0], indexed by LapNumber.
leader_laps(df) == SelectSeq(df, LAMBDA r : r.Position = 1)

\* The rows of the index-by-LapNumber frame that .loc[lap_num] selects.
LeaderRows(df, lap_num) ==
    SelectSeq(leader_laps(df), LAMBDA r : r.LapNumber = lap_num)

RECURSIVE Ascending(_)
Ascending(S) ==
    IF S = {} THEN <<>>
    ELSE LET m == CHOOSE x \in S : \A y \in S : x <= y
         IN  <<m>> \o Ascending(S \ {m})

\* Variant: the index keeps the lap numbers in their order of first
\* appearance in the frame instead of sorting them.
RECURSIVE FirstAppearance(_, _)
FirstAppearance(df, seen) ==
    IF df = <<>> THEN seen
    ELSE FirstAppearance(Tail(df),
            IF \E k \in 1 .. Len(seen) : seen[k] = Head(df).LapNumber
            THEN seen ELSE Append(seen, Head(df).LapNumber))

PivotIndex_unsorted(df) == FirstAppearance(df, <<>>)

\* The index of laps.pivot(index='LapNumber', ...): the lap numbers of the
\* table, each once, ascending.
PivotIndex(df) == Ascending({df[i].LapNumber : i \in 1 .. Len(df)})

\* The columns of laps.pivot(..., columns='Driver', ...).
PivotColumns(df) == {df[i].Driver : i \in 1 .. Len(df)}

\* pivot_time[driver][lap_num]: NaN where the driver has no row.
pivot_time(df, driver, lap_num) ==
    LET rows == SelectSeq(df, LAMBDA r : r.Driver = driver /\ r.LapNumber = lap_num)
    IN  IF rows = <<>> THEN NaN ELSE CumTime(rows[1])

\* pivot_pos[driver].get(lap_num, None)
pivot_pos(df, driver, lap_num) ==
    LET rows == SelectSeq(df, LAMBDA r : r.Driver = driver /\ r.LapNumber = lap_num)
    IN  IF rows = <<>> THEN NaN ELSE rows[1].Position

\* pivot_time[driver].dropna(): the lap numbers that keep a value.
d_times(df, driver) ==
    SelectSeq(PivotIndex(df), LAMBDA n : notna(pivot_time(df, driver, n)))

\* Variant: the operands of the subtraction are exchanged.
GapValue_swapped(driver_time, leader_time) == FSub(leader_time, driver_time)

\* gap = driver_time - leader_time
GapValue(driver_time, leader_time) == FSub(driver_time, leader_time)

GapEntry(df, driver, lap_num, leaders) ==
    LET pos == pivot_pos(df, driver, lap_num)
    IN  [lap      |-> lap_num,
         gap      |-> GapValue(pivot_time(df, driver, lap_num), CumTime(leaders[1])),
         position |-> IF notna(pos) THEN pos ELSE None]

\* Variant: a lap number without a leader ends the driver's loop (break
\* instead of continue).
GapStep_break(acc, df, driver, lap_num) ==
    LET leaders == LeaderRows(df, lap_num)
        broke   == \E m \in 1 .. lap_num - 1 :
                       /\ notna(pivot_time(df, driver, m))
                       /\ LeaderRows(df, m) = <<>>
    IN  IF acc.raised \/ broke \/ leaders = <<>> THEN acc
        ELSE IF Len(leaders) > 1 THEN [acc EXCEPT !.raised = TRUE]
        ELSE [acc EXCEPT !.entries = Append(@, GapEntry(df, driver, lap_num, leaders))]

\* Variant: the test "lap_num not in leader_laps.index" is missing, so
\* .loc raises KeyError on a lap number without a leader.
GapStep_noskip(acc, df, driver, lap_num) ==
    LET leaders == LeaderRows(df, lap_num)
    IN  IF acc.raised THEN acc
        ELSE IF Len(leaders) # 1 THEN [acc EXCEPT !.raised = TRUE]
        ELSE [acc EXCEPT !.entries = Append(@, GapEntry(df, driver, lap_num, leaders))]

\* One pass through the body of "for lap_num, driver_time in d_times.items()".
\* acc is [raised, entries].  .loc on a lap number that two leader rows carry
\* yields a Series, and float() of it raises.
GapStep(acc, df, driver, lap_num) ==
    LET leaders == LeaderRows(df, lap_num)
    IN  IF acc.raised THEN acc
        ELSE IF leaders = <<>> THEN acc
        ELSE IF Len(leaders) > 1 THEN [acc EXCEPT !.raised = TRUE]
        ELSE [acc EXCEPT !.entries = Append(@, GapEntry(df, driver, lap_num, leaders))]

RECURSIVE DriverGapsLoop(_, _, _, _)
DriverGapsLoop(acc, df, driver, lapSeq) ==
    IF lapSeq = <<>> THEN acc
    ELSE DriverGapsLoop(GapStep(acc, df, driver, Head(lapSeq)), df, driver, Tail(lapSeq))

driver_gaps(df, driver) ==
    DriverGapsLoop([raised |-> FALSE, entries |-> <<>>], df, driver, d_times(df, driver))

EmptyResult == [raised |-> FALSE, keys |-> <<>>, data |-> [d \in {} |-> <<>>]]

\* "for driver in drivers": result is a dict, keys in insertion order.
RECURSIVE GapsLoop(_, _, _)
GapsLoop(result, df, drivers) ==
    IF drivers = <<>> \/ result.raised THEN result
    ELSE LET driver == Head(drivers)
         IN  IF driver \notin PivotColumns(df)
             THEN GapsLoop(result, df, Tail(drivers))
             ELSE LET dg == driver_gaps(df, driver)
                  IN  IF dg.raised
                      THEN [result EXCEPT !.raised = TRUE]
                      ELSE GapsLoop(
                             [raised |-> FALSE,
                              keys   |-> IF driver \in DOMAIN result.data
                                         THEN result.keys
                                         ELSE Append(result.keys, driver),
                              data   |-> (driver :> dg.entries) @@ result.data],
                             df, Tail(drivers))

calculate_race_gaps(df, drivers) == GapsLoop(EmptyResult, sort_values(df), drivers)

\* The driver lists a caller passes: both table drivers in either order
\* around a driver that has no laps, and a single driver.
RequestLists == { <<"A", "C", "B">>, <<"B", "A">>, <<"C", "B">> }

NoCall == [called |-> FALSE, drivers |-> <<>>, result |-> EmptyResult]

CalculateRaceGaps ==
    /\ \E drivers \in RequestLists :
          race_gaps' = [called  |-> TRUE,
                        drivers |-> drivers,
                        result  |-> calculate_race_gaps(laps, drivers)]
    /\ UNCHANGED <<laps, notGap>>

\* calculate_fuel_correction not yet called.
NoFuelCall ==
    [called |-> FALSE, start_fuel_kg |-> 0, burn_rate_kg_lap |-> 0,
     time_loss_sec_kg |-> 0, results |-> <<>>]

\* calculate_tyre_degradation not yet called.
NoDegCall ==
    [called |-> FALSE, results |-> [c \in {} |-> <<>>], clean |-> <<>>,
     slope_global |-> NaN, track_evo_per_lap |-> 0]

\* A telemetry frame that has not been fetched yet.
NoTelemetry == [columns |-> {}, rows |-> <<>>]

\* calculate_ghost_delta not yet called.
NoGhostCall == [called |-> FALSE, result |-> [k \in {} |-> <<>>]]

\* No trace fetched, no ghost delta computed.
NoGhost ==
    /\ telemetry_a = NoTelemetry
    /\ telemetry_b = NoTelemetry
    /\ ghost_call = NoGhostCall

\* get_theoretical_best_lap not yet called.
NoBestCall ==
    [called |-> FALSE, driver |-> "", raised |-> "", result |-> [k \in {} |-> 0],
     valid_laps_telemetry |-> <<>>, all_laps_sectors |-> <<>>,
     ref_sector_times |-> <<>>, deltas |-> <<>>]

\* No session loaded through the processor, no theoretical best lap asked.
NoBest ==
    /\ loaded = FALSE
    /\ best_call = NoBestCall

\* The callers of the API.
Callers == {1, 2}

\* No session: None where a session, or the arguments of one, is expected.
NoSession == [year |-> 0, gp |-> ""]

\* No response yet.
NoReply == [to |-> 0, route |-> "", args |-> <<>>, status |-> 0, detail |-> "",
            body |-> <<>>]

\* load_session never invoked.
NoLoad == [invoked |-> FALSE, key |-> NoSession, returned |-> FALSE, laps |-> <<>>]

\* A component not yet run.
NotRun == [called |-> FALSE, result |-> <<>>]

\* No component is run twice.
NoRerun == [component |-> "", args |-> <<>>, build |-> "", runs |-> <<NotRun, NotRun>>]

\* The processor as F1Processor() leaves it, no request handled yet; no
\* component run twice.
NoProc ==
    /\ session = NoSession
    /\ session_info = [k \in {} |-> 0]
    /\ callers = [c \in Callers |-> NoSession]
    /\ reply = NoReply
    /\ last_load = NoLoad
    /\ rerun = NoRerun

----------------------------------------------------------------------------
(* Specification of the gap engine *)

InitGap ==
    /\ laps = <<>>
    /\ race_gaps = NoCall
    /\ fuel_call = NoFuelCall
    /\ deg_call = NoDegCall
    /\ NoGhost
    /\ NoBest
    /\ NoProc

NextGap ==
    \/ LoadLap
    \/ LoadScenario
    \/ CalculateRaceGaps

SpecGap == InitGap /\ [][NextGap]_vars

----------------------------------------------------------------------------
(* Properties of the gap engine *)

\* What the last call returned for driver d: d's list, or nothing when the
\* call raised or d is no key of the result.
GapsOf(d) ==
    IF ~race_gaps.result.raised /\ d \in DOMAIN race_gaps.result.data
    THEN race_gaps.result.data[d] ELSE <<>>

Requested == {race_gaps.drivers[i] : i \in 1 .. Len(race_gaps.drivers)}

InTable(d) == \E i \in 1 .. Len(laps) : laps[i].Driver = d

HasLeader(n) == \E i \in 1 .. Len(laps) : laps[i].LapNumber = n /\ laps[i].Position = 1

HasTime(d, n) ==
    \E i \in 1 .. Len(laps) :
        laps[i].Driver = d /\ laps[i].LapNumber = n /\ laps[i].Time # NaN

TableLaps == {laps[i].LapNumber : i \in 1 .. Len(laps)}

\* C1: for every lap number at which some driver is recorded at position 1,
\* the entry produced for that leading driver at that lap has gap 0.
C1_LeaderGapZero ==
    race_gaps.called =>
        \A i \in 1 .. Len(laps) :
            laps[i].Position = 1 =>
                \A k \in 1 .. Len(GapsOf(laps[i].Driver)) :
                    GapsOf(laps[i].Driver)[k].lap = laps[i].LapNumber
                        => GapsOf(laps[i].Driver)[k].gap = 0

\* A leader's entry with gap 0 next to another driver's entry at the same
\* lap whose gap is not 0.
C1_Witness ==
    /\ race_gaps.called
    /\ \E i, j \in 1 .. Len(laps) :
          /\ laps[i].Position = 1
          /\ laps[j].LapNumber = laps[i].LapNumber
          /\ laps[j].Driver # laps[i].Driver
          /\ \E k \in 1 .. Len(GapsOf(laps[i].Driver)) :
                /\ GapsOf(laps[i].Driver)[k].lap = laps[i].LapNumber
                /\ GapsOf(laps[i].Driver)[k].gap = 0
          /\ \E k \in 1 .. Len(GapsOf(laps[j].Driver)) :
                /\ GapsOf(laps[j].Driver)[k].lap = laps[i].LapNumber
                /\ GapsOf(laps[j].Driver)[k].gap \notin {0, NaN}

\* C2: for every requested driver d present in the table and every lap
\* number n at which d has a cumulative time and a leader exists, the output
\* for d has exactly one entry with lap = n; its gap is d's cumulative time
\* minus that of the driver at position 1 on lap n and its position is d's
\* own position (None if absent).  In the scenario of the specification B's
\* gaps are 1.5, 2.0, 3.0 in position 2 and A's gaps are all 0.
C2_GapFormula ==
    race_gaps.called =>
        /\ \A d \in Requested, i, j \in 1 .. Len(laps) :
              ( /\ laps[i].Driver = d
                /\ laps[i].Time # NaN
                /\ laps[j].LapNumber = laps[i].LapNumber
                /\ laps[j].Position = 1 )
              =>
              /\ Cardinality({k \in 1 .. Len(GapsOf(d)) :
                                 GapsOf(d)[k].lap = laps[i].LapNumber}) = 1
              /\ \A k \in 1 .. Len(GapsOf(d)) :
                    GapsOf(d)[k].lap = laps[i].LapNumber =>
                        /\ GapsOf(d)[k].gap = laps[i].Time - laps[j].Time
                        /\ GapsOf(d)[k].position =
                              (IF laps[i].Position = NaN THEN None
                                                         ELSE laps[i].Position)
        /\ laps \in ScenarioTables =>
              /\ "B" \in Requested =>
                    GapsOf("B") = << [lap |-> 1, gap |-> 15000, position |-> 2],
                                     [lap |-> 2, gap |-> 20000, position |-> 2],
                                     [lap |-> 3, gap |-> 30000, position |-> 2] >>
              /\ "A" \in Requested =>
                    GapsOf("A") = << [lap |-> 1, gap |-> 0, position |-> 1],
                                     [lap |-> 2, gap |-> 0, position |-> 1],
                                     [lap |-> 3, gap |-> 0, position |-> 1] >>

\* The scenario, in the interleaved row order, requested as A, C, B.
C2_Witness ==
    /\ race_gaps.called
    /\ laps \in ScenarioTables
    /\ laps[1].Driver = "B" /\ laps[1].LapNumber = 1
    /\ race_gaps.drivers = <<"A", "C", "B">>
    /\ Len(GapsOf("B")) = 3
    /\ GapsOf("B")[3].gap = 30000

\* C3: a lap number at which no driver is recorded at position 1 produces
\* no entry for any driver, and the other laps of those drivers are still
\* reported.
C3_LeaderlessLapSkipped ==
    race_gaps.called =>
        \A n \in TableLaps :
            ~HasLeader(n) =>
                /\ \A d \in Requested :
                      \A k \in 1 .. Len(GapsOf(d)) : GapsOf(d)[k].lap # n
                /\ \A d \in Requested, m \in TableLaps :
                      (m # n /\ HasLeader(m) /\ HasTime(d, m)) =>
                          \E k \in 1 .. Len(GapsOf(d)) : GapsOf(d)[k].lap = m

\* A driver with a time on a leaderless lap, and an entry on a later lap.
C3_Witness ==
    /\ race_gaps.called
    /\ \E d \in Requested, n, m \in TableLaps :
          /\ n < m
          /\ ~HasLeader(n) /\ HasTime(d, n)
          /\ HasLeader(m) /\ HasTime(d, m)
          /\ Len(GapsOf(d)) = 1
          /\ GapsOf(d)[1].lap = m

\* C4: for every driver in the result the lap values of the entries are
\* strictly increasing, whatever the row order of the lap table.
C4_LapsAscending ==
    race_gaps.called =>
        \A d \in Requested :
            \A j, k \in 1 .. Len(GapsOf(d)) :
                j < k => GapsOf(d)[j].lap < GapsOf(d)[k].lap

\* A driver whose rows arrive in descending lap order and who has two
\* entries in the result.
C4_Witness ==
    /\ race_gaps.called
    /\ \E i, j \in 1 .. Len(laps) :
          /\ i < j
          /\ laps[i].Driver = laps[j].Driver
          /\ laps[i].LapNumber > laps[j].LapNumber
          /\ Len(GapsOf(laps[i].Driver)) >= 2

\* C5: when the lap table is empty, or no lap has a driver at position 1,
\* the call completes without raising and every requested driver has an
\* empty result.
C5_LeaderlessTableEmptyResult ==
    (race_gaps.called /\ \A i \in 1 .. Len(laps) : laps[i].Position # 1) =>
        /\ ~race_gaps.result.raised
        /\ \A d \in Requested :
              d \in DOMAIN race_gaps.result.data => race_gaps.result.data[d] = <<>>

\* A leaderless table in which a requested driver has a time: the driver is
\* a key of the result, with no entries.
C5_Witness ==
    /\ race_gaps.called
    /\ laps # <<>>
    /\ \A i \in 1 .. Len(laps) : laps[i].Position # 1
    /\ \E d \in Requested :
          /\ \E n \in TableLaps : HasTime(d, n)
          /\ d \in DOMAIN race_gaps.result.data
          /\ race_gaps.result.data[d] = <<>>

----------------------------------------------------------------------------
(* AnalysisEngine.calculate_fuel_correction *)

\* The defaults of the signature: 110.0 kg, 1.8 kg/lap, 0.035 s/kg.
DefaultStartFuel == 1100
DefaultBurnRate == 18
DefaultTimeLoss == 35

\* Arguments a caller passes: the defaults, a tank that runs dry within the
\* laps of the model (2.7 kg), zero, and negative rates.
StartFuels == {0, 27, DefaultStartFuel}
BurnRates == {-18, 0, DefaultBurnRate}
TimeLosses == {-35, 0, DefaultTimeLoss}

\* Lap durations of a loaded row: missing, 90.0 s, 91.5 s.
LapTimes == {NaN, 900000, 915000}

\* A row of one driver's laps with the columns calculate_fuel_correction
\* reads.
FuelRow(n, t, pitIn, pitOut) ==
    [Driver |-> "A", LapNumber |-> n, LapTime |-> t,
     PitInTime |-> pitIn, PitOutTime |-> pitOut]

\* The provider appends one lap of the driver; a pit-in or pit-out lap
\* carries the session time of the pit event.
LoadFuelLap ==
    /\ ~fuel_call.called
    /\ Len(laps) < MaxRows
    /\ \E n \in LapNumbers, t \in LapTimes, pitIn, pitOut \in BOOLEAN :
          /\ \A i \in 1 .. Len(laps) : laps[i].LapNumber # n
          /\ laps' = Append(laps,
                FuelRow(n, t,
                        IF pitIn THEN SessionTime("A", n) ELSE NaN,
                        IF pitOut THEN SessionTime("A", n) ELSE NaN))
    /\ UNCHANGED <<fuel_call, notFuel>>

\* Variant: the filter does not look at PitOutTime.
valid_laps_pitout_kept(df) ==
    SelectSeq(df, LAMBDA r : notna(r.LapTime) /\ r.PitInTime = NaN)

\* laps[laps['LapTime'].notna() & laps['PitInTime'].isna()
\*      & laps['PitOutTime'].isna()]
valid_laps(df) ==
    SelectSeq(df, LAMBDA r :
        notna(r.LapTime) /\ r.PitInTime = NaN /\ r.PitOutTime = NaN)

\* Variant: the fuel burned before the lap, not up to its end.
fuel_burned_before(lap_num, burn_rate_kg_lap) == (lap_num - 1) * burn_rate_kg_lap

\* fuel_burned = lap_num * burn_rate_kg_lap
fuel_burned(lap_num, burn_rate_kg_lap) == lap_num * burn_rate_kg_lap

\* Variant: the remaining fuel is not clamped at 0.
remaining_fuel_unclamped(start_fuel_kg, burned) == start_fuel_kg - burned

\* remaining_fuel = max(0, start_fuel_kg - fuel_burned)
remaining_fuel(start_fuel_kg, burned) ==
    IF start_fuel_kg - burned > 0 THEN start_fuel_kg - burned ELSE 0

\* fuel_effect = remaining_fuel * time_loss_sec_kg
fuel_effect(remaining, time_loss_sec_kg) == remaining * time_loss_sec_kg

\* Variant: the penalty is added, as in the degradation estimate.
corrected_time_added(actual_time, effect) == actual_time + effect

\* corrected_time = actual_time - fuel_effect
corrected_time(actual_time, effect) == actual_time - effect

\* The dict appended for one row of valid_laps.
FuelEntry(lap, start_fuel_kg, burn_rate_kg_lap, time_loss_sec_kg) ==
    LET remaining == remaining_fuel(start_fuel_kg,
                                    fuel_burned(lap.LapNumber, burn_rate_kg_lap))
    IN  [lap       |-> lap.LapNumber,
         actual    |-> lap.LapTime,
         corrected |-> corrected_time(lap.LapTime,
                                      fuel_effect(remaining, time_loss_sec_kg)),
         fuelLoad  |-> remaining]

calculate_fuel_correction(df, start_fuel_kg, burn_rate_kg_lap, time_loss_sec_kg) ==
    LET valid == valid_laps(df)
    IN  [k \in 1 .. Len(valid) |->
            FuelEntry(valid[k], start_fuel_kg, burn_rate_kg_lap, time_loss_sec_kg)]

CalculateFuelCorrection ==
    /\ \E s \in StartFuels, b \in BurnRates, t \in TimeLosses :
          fuel_call' = [called           |-> TRUE,
                        start_fuel_kg    |-> s,
                        burn_rate_kg_lap |-> b,
                        time_loss_sec_kg |-> t,
                        results          |-> calculate_fuel_correction(laps, s, b, t)]
    /\ UNCHANGED <<laps, notFuel>>

----------------------------------------------------------------------------
(* Specification of the fuel correction *)

InitFuel ==
    /\ laps = <<>>
    /\ race_gaps = NoCall
    /\ fuel_call = NoFuelCall
    /\ deg_call = NoDegCall
    /\ NoGhost
    /\ NoBest
    /\ NoProc

NextFuel ==
    \/ LoadFuelLap
    \/ CalculateFuelCorrection

SpecFuel == InitFuel /\ [][NextFuel]_vars

----------------------------------------------------------------------------
(* Properties of the fuel correction *)

FuelResults == fuel_call.results

ValidRow(i) ==
    laps[i].LapTime # NaN /\ laps[i].PitInTime = NaN /\ laps[i].PitOutTime = NaN

NonNegativeArgs ==
    /\ fuel_call.start_fuel_kg >= 0
    /\ fuel_call.burn_rate_kg_lap >= 0
    /\ fuel_call.time_loss_sec_kg >= 0

\* C6: for every output entry, when start fuel, burn rate, time loss per kg
\* and lap number are non-negative, corrected <= actual.
C6_CorrectedAtMostActual ==
    (fuel_call.called /\ NonNegativeArgs) =>
        \A k \in 1 .. Len(FuelResults) :
            FuelResults[k].lap >= 0 =>
                FuelResults[k].corrected <= FuelResults[k].actual

\* Non-negative arguments, one entry strictly below its actual time and one
\* entry of a dry tank equal to it.
C6_Witness ==
    /\ fuel_call.called /\ NonNegativeArgs
    /\ \E j, k \in 1 .. Len(FuelResults) :
          /\ FuelResults[j].corrected < FuelResults[j].actual
          /\ FuelResults[k].corrected = FuelResults[k].actual
          /\ FuelResults[k].lap * fuel_call.burn_rate_kg_lap > fuel_call.start_fuel_kg

\* C7: in every output entry fuelLoad >= 0; with a non-negative burn rate,
\* of two entries the one with the larger lap number has the smaller or
\* equal fuelLoad, and fuelLoad is 0 at every lap at which the burned fuel
\* has reached the start fuel.
C7_FuelLoadMonotone ==
    fuel_call.called =>
        /\ \A k \in 1 .. Len(FuelResults) : FuelResults[k].fuelLoad >= 0
        /\ fuel_call.burn_rate_kg_lap >= 0 =>
              /\ \A j, k \in 1 .. Len(FuelResults) :
                    FuelResults[j].lap < FuelResults[k].lap =>
                        FuelResults[k].fuelLoad <= FuelResults[j].fuelLoad
              /\ \A k \in 1 .. Len(FuelResults) :
                    FuelResults[k].lap * fuel_call.burn_rate_kg_lap
                            >= fuel_call.start_fuel_kg
                        => FuelResults[k].fuelLoad = 0

\* A tank that holds fuel after one lap and is dry, past empty, one lap on.
C7_Witness ==
    /\ fuel_call.called
    /\ fuel_call.burn_rate_kg_lap > 0
    /\ \E j, k \in 1 .. Len(FuelResults) :
          /\ FuelResults[j].lap < FuelResults[k].lap
          /\ FuelResults[j].fuelLoad > 0
          /\ FuelResults[k].fuelLoad = 0
          /\ FuelResults[k].lap * fuel_call.burn_rate_kg_lap > fuel_call.start_fuel_kg

\* C8: the output has exactly one entry for each input lap that has a
\* duration and is neither a pit-in nor a pit-out lap, in input row order,
\* and no entry for any other lap.
C8_ValidLapsOnly ==
    fuel_call.called =>
        /\ \A i \in 1 .. Len(laps) :
              Cardinality({k \in 1 .. Len(FuelResults) :
                              FuelResults[k].lap = laps[i].LapNumber})
                = (IF ValidRow(i) THEN 1 ELSE 0)
        /\ \A k \in 1 .. Len(FuelResults) :
              \E i \in 1 .. Len(laps) :
                  /\ FuelResults[k].lap = laps[i].LapNumber
                  /\ FuelResults[k].actual = laps[i].LapTime
        /\ \A i, j \in 1 .. Len(laps), k, l \in 1 .. Len(FuelResults) :
              ( /\ i < j
                /\ FuelResults[k].lap = laps[i].LapNumber
                /\ FuelResults[l].lap = laps[j].LapNumber ) => k < l

\* A pit-out lap with a duration ahead of a valid lap: the only entry is
\* the valid lap's.
C8_Witness ==
    /\ fuel_call.called
    /\ Len(laps) = 2
    /\ laps[1].LapTime # NaN /\ laps[1].PitInTime = NaN /\ laps[1].PitOutTime # NaN
    /\ laps[1].LapNumber > laps[2].LapNumber
    /\ Len(FuelResults) = 1
    /\ FuelResults[1].lap = laps[2].LapNumber

\* C9: each entry has fuelLoad = max(0, start_fuel - lap * burn_rate) and
\* corrected = actual - fuelLoad * time_loss_per_kg; with start 110 kg, burn
\* 1.8 kg/lap, loss 0.035 s/kg and lap 1 at 90.0 s, fuelLoad is 108.2 kg and
\* corrected is 86.213 s.
C9_FuelFormula ==
    fuel_call.called =>
        /\ \A k \in 1 .. Len(FuelResults) :
              LET e    == FuelResults[k]
                  left == fuel_call.start_fuel_kg - e.lap * fuel_call.burn_rate_kg_lap
              IN  /\ e.fuelLoad >= 0 /\ e.fuelLoad >= left
                  /\ e.fuelLoad \in {0, left}
                  /\ e.corrected = e.actual - e.fuelLoad * fuel_call.time_loss_sec_kg
        /\ ( /\ fuel_call.start_fuel_kg = 1100
             /\ fuel_call.burn_rate_kg_lap = 18
             /\ fuel_call.time_loss_sec_kg = 35 ) =>
              \A k \in 1 .. Len(FuelResults) :
                  (FuelResults[k].lap = 1 /\ FuelResults[k].actual = 900000) =>
                      /\ FuelResults[k].fuelLoad = 1082
                      /\ FuelResults[k].corrected = 862130

\* The call of the example: lap 1 at 90.0 s with the default arguments.
C9_Witness ==
    /\ fuel_call.called
    /\ fuel_call.start_fuel_kg = 1100
    /\ fuel_call.burn_rate_kg_lap = 18
    /\ fuel_call.time_loss_sec_kg = 35
    /\ \E k \in 1 .. Len(FuelResults) :
          /\ FuelResults[k].lap = 1
          /\ FuelResults[k].actual = 900000
          /\ FuelResults[k].corrected = 862130

----------------------------------------------------------------------------
(* The lap table of the degradation estimate *)

\* Rows of the full-field table that the provider loads.
MaxDegRows == 4

\* Lap time on a tyre of age 0: 90.0 s.
BaseLapTime == 900000

\* Wear injected into a driver's laps, per lap of tyre age: A and E lose
\* 0.05 s per lap, every other driver gains 0.1 s per lap.
Wear(d) == IF d \in {"A", "E"} THEN 500 ELSE -1000

\* Time a lap loses when it is not a clean lap: 2.0 s.
FlawPenalty == 20000

\* What can keep a lap from being clean.
Flaws == {"none", "yellow", "inaccurate", "pitin", "pitout"}

RowsOf(df, d) == SelectSeq(df, LAMBDA r : r.Driver = d)

\* Age of the tyre on driver d's next lap on compound c: one more than on
\* the lap before when the compound is the same, 1 on a new set.
NextTyreLife(df, d, c) ==
    LET mine == RowsOf(df, d)
    IN  IF mine # <<>> /\ mine[Len(mine)].Compound = c
        THEN mine[Len(mine)].TyreLife + 1
        ELSE 1

\* A row with the columns calculate_tyre_degradation reads.
DegRow(d, n, c, age, flaw) ==
    [Driver      |-> d,
     LapNumber   |-> n,
     LapTime     |-> BaseLapTime + Wear(d) * age
                       + (IF flaw = "none" THEN 0 ELSE FlawPenalty),
     TrackStatus |-> IF flaw = "yellow" THEN "2" ELSE "1",
     IsAccurate  |-> flaw # "inaccurate",
     PitInTime   |-> IF flaw = "pitin" THEN SessionTime(d, n) ELSE NaN,
     PitOutTime  |-> IF flaw = "pitout" THEN SessionTime(d, n) ELSE NaN,
     Compound    |-> c,
     TyreLife    |-> age]

\* The driver has a lap that is not clean.
HasFlawedLap(df, d) ==
    \E i \in 1 .. Len(df) :
        /\ df[i].Driver = d
        /\ ~(df[i].TrackStatus = "1" /\ df[i].IsAccurate
               /\ df[i].PitInTime = NaN /\ df[i].PitOutTime = NaN)

\* The provider appends the next lap of a driver: a clean lap on SOFT or on
\* an unknown compound, or a flawed lap on SOFT, one flawed lap a driver at
\* most.
LoadDegLap ==
    /\ ~deg_call.called
    /\ Len(laps) < MaxDegRows
    /\ \E d \in TableDrivers, c \in {"SOFT", "UNKNOWN"}, flaw \in Flaws :
          /\ c = "UNKNOWN" => flaw = "none"
          /\ flaw # "none" => ~HasFlawedLap(laps, d)
          /\ laps' = Append(laps,
                DegRow(d, Len(RowsOf(laps, d)) + 1, c, NextTyreLife(laps, d, c), flaw))
    /\ UNCHANGED <<deg_call, notDeg>>

\* Drivers whose laps arrive a whole stint at a time.
StintDrivers == {"C", "D", "E"}

\* Laps of a stint: as many as the estimate needs for one entry.
StintLen == 4

RECURSIVE Stint(_, _)
Stint(d, n) ==
    IF n = 0 THEN <<>> ELSE Append(Stint(d, n - 1), DegRow(d, n, "SOFT", n, "none"))

\* The provider appends the whole stint of a driver that has no lap yet:
\* StintLen clean laps on SOFT. Stints arrive while two of the single rows
\* are still to come.
LoadStint ==
    /\ ~deg_call.called
    /\ Len(SelectSeq(laps, LAMBDA r : r.Driver \in TableDrivers)) + 1 < MaxDegRows
    /\ \E d \in StintDrivers :
          /\ RowsOf(laps, d) = <<>>
          /\ laps' = laps \o Stint(d, StintLen)
    /\ UNCHANGED <<deg_call, notDeg>>

----------------------------------------------------------------------------
(* scipy.stats.theilslopes: the median of the pairwise slopes *)

RECURSIVE Gcd(_, _)
Gcd(a, b) == IF b = 0 THEN a ELSE Gcd(b, a % b)

RECURSIVE LcmUpTo(_)
LcmUpTo(n) == IF n <= 1 THEN 1 ELSE LET l == LcmUpTo(n - 1) IN (l * n) \div Gcd(l, n)

\* Lap numbers and tyre ages lie in 1 .. MaxDegRows, so a difference of two
\* of them divides XLcm, and a median of slopes of integer points is an
\* integer once multiplied by SlopeScale.
XLcm == LcmUpTo(MaxDegRows)
SlopeScale == 2 * XLcm

\* The k-th smallest value of s, as a sort of s would place it.
KthSmallest(s, k) ==
    CHOOSE v \in {s[i] : i \in DOMAIN s} :
        /\ Cardinality({i \in DOMAIN s : s[i] < v}) < k
        /\ Cardinality({i \in DOMAIN s : s[i] <= v}) >= k

\* The slopes of point i against every point j with x[i] - x[j] > 0, each
\* times XLcm.
RowSlopes(pts, i) ==
    LET js == SelectSeq([j \in 1 .. Len(pts) |-> j], LAMBDA j : pts[i].x - pts[j].x > 0)
    IN  [k \in 1 .. Len(js) |->
            (pts[i].y - pts[js[k]].y) * (XLcm \div (pts[i].x - pts[js[k]].x))]

\* slopes = deltay[deltax > 0] / deltax[deltax > 0], each times XLcm.
RECURSIVE PairSlopes(_, _)
PairSlopes(pts, i) ==
    IF i > Len(pts) THEN <<>> ELSE RowSlopes(pts, i) \o PairSlopes(pts, i + 1)

\* np.median of the sorted slopes, times SlopeScale; NaN when all x are
\* identical (no slope at all).
theilslopes(pts) ==
    LET slopes == PairSlopes(pts, 1)
        n      == Len(slopes)
    IN  IF n = 0 THEN NaN
        ELSE IF n % 2 = 1 THEN 2 * KthSmallest(slopes, (n + 1) \div 2)
        ELSE KthSmallest(slopes, n \div 2) + KthSmallest(slopes, n \div 2 + 1)

----------------------------------------------------------------------------
(* AnalysisEngine.calculate_tyre_degradation *)

\* fuel_penalty = 1.7 * 0.035 s per lap, in 1e-4 s.
fuel_penalty == 595

\* The keys of results.
CompoundKeys == <<"SOFT", "MEDIUM", "HARD", "INTERMEDIATE", "WET">>

InResults(c) == \E k \in 1 .. Len(CompoundKeys) : CompoundKeys[k] = c

\* A filter that keeps the laps flagged inaccurate.
clean_ignoring_accuracy(df) ==
    SelectSeq(df, LAMBDA r :
        /\ r.TrackStatus = "1"
        /\ r.PitInTime = NaN
        /\ r.PitOutTime = NaN)

\* laps[(TrackStatus == '1') & (IsAccurate == True) & PitInTime.isna()
\*      & PitOutTime.isna()]
clean(df) ==
    SelectSeq(df, LAMBDA r :
        /\ r.TrackStatus = "1"
        /\ r.IsAccurate = TRUE
        /\ r.PitInTime = NaN
        /\ r.PitOutTime = NaN)

\* clean['FuelCorrected'] = LapTime + LapNumber * fuel_penalty
FuelCorrected(r) == r.LapTime + r.LapNumber * fuel_penalty

\* slope_global, times SlopeScale: the trend of the whole field's
\* FuelCorrected times over the lap number.
slope_global(cl) ==
    theilslopes([k \in 1 .. Len(cl) |-> [x |-> cl[k].LapNumber, y |-> FuelCorrected(cl[k])]])

\* A rate that is the magnitude of the slope whatever its sign.
track_evo_abs(sg) == IF sg = NaN THEN 0 ELSE IF sg < 0 THEN 0 - sg ELSE sg

\* track_evo_per_lap = 0; if slope_global < 0: track_evo_per_lap =
\* abs(slope_global). Times SlopeScale.
track_evo_per_lap(sg) == IF sg # NaN /\ sg < 0 THEN 0 - sg ELSE 0

\* clean['FullyCorrected'] = FuelCorrected + LapNumber * track_evo_per_lap,
\* times SlopeScale.
FullyCorrected(r, evo) == SlopeScale * FuelCorrected(r) + r.LapNumber * evo

\* Series.unique(): the values in their order of first appearance.
RECURSIVE Unique(_, _)
Unique(s, seen) ==
    IF s = <<>> THEN seen
    ELSE Unique(Tail(s),
                IF \E k \in 1 .. Len(seen) : seen[k] = Head(s)
                THEN seen ELSE Append(seen, Head(s)))

\* The entry of one driver on one compound; deg_per_lap is the slope of
\* FullyCorrected over TyreLife, times SlopeScale * SlopeScale.
DegEntry(c_laps, driver, evo) ==
    [driver        |-> driver,
     deg_per_lap   |-> theilslopes([k \in 1 .. Len(c_laps) |->
                           [x |-> c_laps[k].TyreLife,
                            y |-> FullyCorrected(c_laps[k], evo)]]),
     confidence    |-> 1,
     laps_analyzed |-> Len(c_laps)]

\* A threshold of three laps.
too_few_below_three(c_laps) == Len(c_laps) < 3

\* "if len(c_laps) < 4: continue"
too_few(c_laps) == Len(c_laps) < 4

\* "for compound in d_laps['Compound'].unique()"
RECURSIVE CompoundLoop(_, _, _, _, _)
CompoundLoop(results, d_laps, driver, compounds, evo) ==
    IF compounds = <<>> THEN results
    ELSE LET compound == Head(compounds)
             c_laps   == SelectSeq(d_laps, LAMBDA r : r.Compound = compound)
         IN  IF ~InResults(compound) \/ too_few(c_laps)
             THEN CompoundLoop(results, d_laps, driver, Tail(compounds), evo)
             ELSE CompoundLoop(
                    [results EXCEPT ![compound] = Append(@, DegEntry(c_laps, driver, evo))],
                    d_laps, driver, Tail(compounds), evo)

\* "for driver in drivers"
RECURSIVE DriverLoop(_, _, _, _)
DriverLoop(results, cl, drivers, evo) ==
    IF drivers = <<>> THEN results
    ELSE LET d_laps == SelectSeq(cl, LAMBDA r : r.Driver = Head(drivers))
         IN  DriverLoop(
                CompoundLoop(results, d_laps, Head(drivers),
                    Unique([k \in 1 .. Len(d_laps) |-> d_laps[k].Compound], <<>>), evo),
                cl, Tail(drivers), evo)

\* a < b on floats: false when either is NaN.
FloatLess(a, b) == a # NaN /\ b # NaN /\ a < b

\* results[comp].sort(key=lambda x: x['deg_per_lap']): a stable sort.
RECURSIVE InsertEntry(_, _)
InsertEntry(e, sorted) ==
    IF sorted = <<>> THEN <<e>>
    ELSE IF FloatLess(e.deg_per_lap, Head(sorted).deg_per_lap) THEN <<e>> \o sorted
    ELSE <<Head(sorted)>> \o InsertEntry(e, Tail(sorted))

\* A list left in the order of the appends.
SortEntries_skipped(s) == s

RECURSIVE SortEntries(_)
SortEntries(s) ==
    IF s = <<>> THEN <<>>
    ELSE InsertEntry(s[Len(s)], SortEntries(SubSeq(s, 1, Len(s) - 1)))

\* One run of the function on the table df: the result, with the columns
\* and the rate the function computes on the way (the clean frame with
\* FuelCorrected and FullyCorrected times SlopeScale, slope_global and
\* track_evo_per_lap times SlopeScale); the function returns before it
\* computes them when no lap is clean.
TyreDegradationRun(df) ==
    LET cl == clean(df)
    IN  IF cl = <<>>
        THEN [called |-> TRUE, results |-> [c \in {} |-> <<>>], clean |-> <<>>,
              slope_global |-> NaN, track_evo_per_lap |-> 0]
        ELSE LET sg      == slope_global(cl)
                 evo     == track_evo_per_lap(sg)
                 drivers == Unique([k \in 1 .. Len(cl) |-> cl[k].Driver], <<>>)
                 empty   == [c \in {CompoundKeys[k] : k \in 1 .. Len(CompoundKeys)} |-> <<>>]
                 filled  == DriverLoop(empty, cl, drivers, evo)
             IN  [called            |-> TRUE,
                  results           |-> [c \in DOMAIN filled |-> SortEntries(filled[c])],
                  clean             |-> [k \in 1 .. Len(cl) |->
                                           [Driver         |-> cl[k].Driver,
                                            LapNumber      |-> cl[k].LapNumber,
                                            FuelCorrected  |-> FuelCorrected(cl[k]),
                                            FullyCorrected |-> FullyCorrected(cl[k], evo)]],
                  slope_global      |-> sg,
                  track_evo_per_lap |-> evo]

calculate_tyre_degradation(df) == TyreDegradationRun(df).results

CalculateTyreDegradation ==
    /\ deg_call' = TyreDegradationRun(laps)
    /\ UNCHANGED <<laps, notDeg>>

----------------------------------------------------------------------------
(* Specification of the degradation estimate *)

InitDeg ==
    /\ laps = <<>>
    /\ race_gaps = NoCall
    /\ fuel_call = NoFuelCall
    /\ deg_call = NoDegCall
    /\ NoGhost
    /\ NoBest
    /\ NoProc

NextDeg ==
    \/ LoadDegLap
    \/ LoadStint
    \/ CalculateTyreDegradation

SpecDeg == InitDeg /\ [][NextDeg]_vars

----------------------------------------------------------------------------
(* Properties of the degradation estimate *)

\* The table is a synthetic stint: at least 4 laps, all clean, all of
\* driver d on compound c, each lasting BaseLapTime + r * tyre age.
SyntheticStint(d, c, r) ==
    /\ Len(laps) >= 4
    /\ \A i \in 1 .. Len(laps) :
          /\ laps[i].Driver = d
          /\ laps[i].Compound = c
          /\ laps[i].TrackStatus = "1" /\ laps[i].IsAccurate
          /\ laps[i].PitInTime = NaN /\ laps[i].PitOutTime = NaN
          /\ laps[i].LapTime = BaseLapTime + r * laps[i].TyreLife

DegEntriesOf(d, c) ==
    IF c \in DOMAIN deg_call.results
    THEN SelectSeq(deg_call.results[c], LAMBDA e : e.driver = d)
    ELSE <<>>

Abs(v) == IF v < 0 THEN 0 - v ELSE v

\* C10: for synthetic clean laps of one driver on one compound (at least 4
\* laps) whose lap time is base + r * tyre_age, the reported deg_per_lap of
\* that driver and compound equals r within 0.01 s per lap (100 units of
\* 1e-4 s).
C10_RecoversInjectedRate ==
    deg_call.called =>
        \A d \in TableDrivers, r \in {0, 500, -1000} :
            SyntheticStint(d, "SOFT", r) =>
                /\ Len(DegEntriesOf(d, "SOFT")) = 1
                /\ Abs(DegEntriesOf(d, "SOFT")[1].deg_per_lap
                         - r * SlopeScale * SlopeScale)
                      <= 100 * SlopeScale * SlopeScale

\* What the code reports for the stint of driver A (r = 0.05 s per lap):
\* 0.05 + 0.0595 = 0.1095 s per lap, the fuel penalty on top of the wear.
C10_CodeReportsWearPlusFuelPenalty ==
    (deg_call.called /\ SyntheticStint("A", "SOFT", 500)) =>
        /\ Len(DegEntriesOf("A", "SOFT")) = 1
        /\ DegEntriesOf("A", "SOFT")[1].deg_per_lap
              = (500 + fuel_penalty) * SlopeScale * SlopeScale

\* The stint of driver A has been analysed.
C10_StintAnalysed ==
    /\ deg_call.called
    /\ SyntheticStint("A", "SOFT", 500)
    /\ Len(DegEntriesOf("A", "SOFT")) = 1

----------------------------------------------------------------------------
(* Properties of the degradation estimate over the whole field *)

\* Every driver a table can hold.
DegDrivers == TableDrivers \cup StintDrivers

\* Every compound a table can hold.
DegCompounds == {CompoundKeys[k] : k \in 1 .. Len(CompoundKeys)} \cup {"UNKNOWN"}

\* A green-flag, accurate lap that neither enters nor leaves the pits.
IsCleanRow(r) ==
    r.TrackStatus = "1" /\ r.IsAccurate /\ r.PitInTime = NaN /\ r.PitOutTime = NaN

\* The rows of the table that are clean laps of driver d on compound c.
CleanRowsOf(d, c) ==
    {i \in 1 .. Len(laps) :
        laps[i].Driver = d /\ laps[i].Compound = c /\ IsCleanRow(laps[i])}

CleanCount(d, c) == Cardinality(CleanRowsOf(d, c))

\* C11: every reported entry has laps_analyzed >= 4; a driver and compound
\* with fewer than 4 clean laps has no entry, and the other pairs are still
\* reported (one entry for each pair with at least 4 clean laps on one of
\* the five compounds).
C11_AtLeastFourCleanLaps ==
    deg_call.called =>
        /\ \A c \in DOMAIN deg_call.results :
              \A k \in 1 .. Len(deg_call.results[c]) :
                  deg_call.results[c][k].laps_analyzed >= 4
        /\ \A d \in DegDrivers, c \in DegCompounds :
              /\ CleanCount(d, c) < 4 => DegEntriesOf(d, c) = <<>>
              /\ (CleanCount(d, c) >= 4 /\ InResults(c)) => Len(DegEntriesOf(d, c)) = 1

\* One driver has 1 to 3 clean laps on SOFT and no entry, another has at
\* least 4 and its entry.
C11_ShortStintBesideLongStint ==
    /\ deg_call.called
    /\ \E d1, d2 \in DegDrivers :
          /\ CleanCount(d1, "SOFT") \in 1 .. 3
          /\ DegEntriesOf(d1, "SOFT") = <<>>
          /\ CleanCount(d2, "SOFT") >= 4
          /\ Len(DegEntriesOf(d2, "SOFT")) = 1

\* The row of the first clean lap of driver d.
FirstCleanRow(d) ==
    LET rows == {i \in 1 .. Len(laps) : laps[i].Driver = d /\ IsCleanRow(laps[i])}
    IN  IF rows = {} THEN 0 ELSE CHOOSE i \in rows : \A j \in rows : i <= j

\* C12: within each compound's list the entries are in non-decreasing order
\* of deg_per_lap, no driver appears twice, and entries of equal deg_per_lap
\* stand in an order the input fixes: that of the drivers' first clean laps
\* in the table.
C12_SortedAscendingTiesInInputOrder ==
    deg_call.called =>
        \A c \in DOMAIN deg_call.results :
            LET es == deg_call.results[c]
            IN  \A j, k \in 1 .. Len(es) :
                    j < k =>
                        /\ es[j].deg_per_lap <= es[k].deg_per_lap
                        /\ es[j].driver # es[k].driver
                        /\ es[j].deg_per_lap = es[k].deg_per_lap
                              => FirstCleanRow(es[j].driver) < FirstCleanRow(es[k].driver)

\* The SOFT list holds three drivers: two of equal deg_per_lap, then one of
\* a greater one whose laps come first in the table.
C12_TieThenSlowerDriver ==
    /\ deg_call.called
    /\ "SOFT" \in DOMAIN deg_call.results
    /\ LET es == deg_call.results["SOFT"]
       IN  /\ Len(es) = 3
           /\ es[1].deg_per_lap = es[2].deg_per_lap
           /\ es[2].deg_per_lap < es[3].deg_per_lap
           /\ FirstCleanRow(es[3].driver) < FirstCleanRow(es[1].driver)

\* C13: the result always maps exactly the five keys SOFT, MEDIUM, HARD,
\* INTERMEDIATE and WET to lists; with no clean lap in the field the five
\* lists are all empty; a lap on another compound never makes an entry.
C13_AlwaysFiveKeys ==
    deg_call.called =>
        /\ DOMAIN deg_call.results = {"SOFT", "MEDIUM", "HARD", "INTERMEDIATE", "WET"}
        /\ (\A i \in 1 .. Len(laps) : ~IsCleanRow(laps[i])) =>
              \A c \in DOMAIN deg_call.results : deg_call.results[c] = <<>>
        /\ \A c \in DOMAIN deg_call.results :
              \A k \in 1 .. Len(deg_call.results[c]) :
                  CleanCount(deg_call.results[c][k].driver, c) > 0

\* What the code does: five keys when a lap is clean, no key at all when
\* none is.
C13_CodeReturnsNoKeyWithoutCleanLaps ==
    deg_call.called =>
        DOMAIN deg_call.results =
            IF \E i \in 1 .. Len(laps) : IsCleanRow(laps[i])
            THEN {"SOFT", "MEDIUM", "HARD", "INTERMEDIATE", "WET"}
            ELSE {}

\* The pairs of clean laps of different lap numbers, later lap first.
SlopePairs ==
    {p \in (1 .. Len(deg_call.clean)) \X (1 .. Len(deg_call.clean)) :
        deg_call.clean[p[1]].LapNumber > deg_call.clean[p[2]].LapNumber}

\* Whether the slope of pair p lies below (sign = 1) or above (sign = -1)
\* the rate s, s being times SlopeScale.
SlopeBeyond(p, s, sign) ==
    LET dy == deg_call.clean[p[1]].FuelCorrected - deg_call.clean[p[2]].FuelCorrected
        dx == deg_call.clean[p[1]].LapNumber - deg_call.clean[p[2]].LapNumber
    IN  sign * SlopeScale * dy < sign * s * dx

\* s is a median of the pairwise slopes of the field's fuel-corrected times
\* over the lap number: at most half of them lie below and at most half above.
IsFieldSlope(s) ==
    /\ SlopePairs # {}
    /\ s # NaN
    /\ 2 * Cardinality({p \in SlopePairs : SlopeBeyond(p, s, 1)}) <= Cardinality(SlopePairs)
    /\ 2 * Cardinality({p \in SlopePairs : SlopeBeyond(p, s, -1)}) <= Cardinality(SlopePairs)

\* C14: the track-evolution rate is the magnitude of the field-wide fitted
\* slope when that slope is negative and 0 otherwise; it is never negative,
\* and the fully corrected time of a lap is never below its fuel-corrected
\* time.
C14_EvolutionRateNeverNegative ==
    (deg_call.called /\ deg_call.clean # <<>>) =>
        /\ SlopePairs # {} => IsFieldSlope(deg_call.slope_global)
        /\ SlopePairs = {} => deg_call.slope_global = NaN
        /\ deg_call.track_evo_per_lap =
              IF deg_call.slope_global # NaN /\ deg_call.slope_global < 0
              THEN 0 - deg_call.slope_global
              ELSE 0
        /\ deg_call.track_evo_per_lap >= 0
        /\ \A k \in 1 .. Len(deg_call.clean) :
              deg_call.clean[k].FullyCorrected
                  >= SlopeScale * deg_call.clean[k].FuelCorrected

\* The field gets faster lap by lap: a negative slope, a positive rate and
\* a lap whose fully corrected time is above its fuel-corrected time.
C14_FieldGetsFaster ==
    /\ deg_call.called
    /\ deg_call.slope_global # NaN
    /\ deg_call.slope_global < 0
    /\ deg_call.track_evo_per_lap > 0
    /\ \E k \in 1 .. Len(deg_call.clean) :
          deg_call.clean[k].FullyCorrected > SlopeScale * deg_call.clean[k].FuelCorrected

\* The table without the laps that are not clean.
OnlyCleanLaps == SelectSeq(laps, IsCleanRow)

\* C15: only green-flag, accurate laps that are neither in-laps nor out-laps
\* contribute: laps_analyzed is the number of the driver's clean laps on the
\* compound, and the evolution rate and every entry are what the table
\* without its other laps gives.
C15_OnlyCleanLapsCount ==
    deg_call.called =>
        /\ \A c \in DOMAIN deg_call.results :
              \A k \in 1 .. Len(deg_call.results[c]) :
                  deg_call.results[c][k].laps_analyzed
                      = CleanCount(deg_call.results[c][k].driver, c)
        /\ LET run == TyreDegradationRun(OnlyCleanLaps)
           IN  /\ deg_call.results = run.results
               /\ deg_call.track_evo_per_lap = run.track_evo_per_lap

\* A table with a yellow-flag lap, an inaccurate lap or a pit lap beside a
\* stint that is reported.
C15_FlawedLapBesideEntry ==
    /\ deg_call.called
    /\ \E i \in 1 .. Len(laps) : ~IsCleanRow(laps[i])
    /\ \E i \in 1 .. Len(laps) : ~laps[i].IsAccurate
    /\ "SOFT" \in DOMAIN deg_call.results
    /\ deg_call.results["SOFT"] # <<>>

----------------------------------------------------------------------------
(* Floats that are not finite *)

\* numpy's inf and -inf, as a division by zero produces them.
Inf == 1500000000
NegInf == 0 - Inf

IsFinite(v) == v \notin {NaN, Inf, NegInf}

\* a / b for finite a and b, the quotient being whole when b is not 0:
\* inf, -inf or nan when b is 0.
FloatDiv(a, b) ==
    IF b # 0 THEN a \div b
    ELSE IF a > 0 THEN Inf ELSE IF a < 0 THEN NegInf ELSE NaN

\* a * b for a float a and a finite b.
FloatMul(a, b) ==
    IF a = NaN THEN NaN
    ELSE IF a \in {Inf, NegInf}
         THEN (IF b = 0 THEN NaN
               ELSE IF (a = Inf) = (b > 0) THEN Inf ELSE NegInf)
    ELSE a * b

\* a + b for floats a and b.
FloatAdd(a, b) ==
    IF a = NaN \/ b = NaN THEN NaN
    ELSE IF a \in {Inf, NegInf}
         THEN (IF b \in {Inf, NegInf} /\ b # a THEN NaN ELSE a)
    ELSE IF b \in {Inf, NegInf} THEN b
    ELSE a + b

FloatNeg(a) ==
    IF a = NaN THEN NaN ELSE IF a = Inf THEN NegInf ELSE IF a = NegInf THEN Inf ELSE 0 - a

\* a - b for floats a and b.
FloatSub(a, b) == FloatAdd(a, FloatNeg(b))

----------------------------------------------------------------------------
(* The telemetry traces of the ghost aligner *)

\* Samples of a trace.
MaxSamples == 3

\* Distance of the first sample of a trace, in m.
StartDistances == {0, 2}

\* Distance covered from one sample to the next, in m: none when the car
\* stands still.
DistanceSteps == {0, 5, 8}

\* Time from one sample to the next, in ticks of 0.1 s.
TimeSteps == {1, 2}

\* A tick of 0.1 s in the unit of the times: a multiple of every distance
\* step, so that a time interpolated at a whole metre is a whole number.
TimeTick == 5 * 8

\* The columns of a trace after add_distance().
TelemetryColumns == {"Distance", "Time"}

\* The provider delivers the next sample of a trace: the time strictly
\* later, the distance not smaller than that of the sample before.
NextSamples(tel) ==
    IF tel.rows = <<>>
    THEN {[Distance |-> d, Time |-> 0] : d \in StartDistances}
    ELSE LET last == tel.rows[Len(tel.rows)]
         IN  {[Distance |-> last.Distance + dd, Time |-> last.Time + dt * TimeTick] :
                 dd \in DistanceSteps, dt \in TimeSteps}

Grown(tel) ==
    IF tel.columns \in {{}, TelemetryColumns} /\ Len(tel.rows) < MaxSamples
    THEN {[columns |-> TelemetryColumns, rows |-> Append(tel.rows, r)] : r \in NextSamples(tel)}
    ELSE {}

LoadSample ==
    /\ ~ghost_call.called
    /\ \/ telemetry_a' \in Grown(telemetry_a) /\ UNCHANGED telemetry_b
       \/ telemetry_b' \in Grown(telemetry_b) /\ UNCHANGED telemetry_a
    /\ UNCHANGED <<ghost_call, notGhost>>

\* A frame without the Distance column.
WithoutDistance == [columns |-> {"Time"}, rows |-> <<>>]

LoadWithoutDistance ==
    /\ ~ghost_call.called
    /\ \/ telemetry_a = NoTelemetry /\ telemetry_a' = WithoutDistance /\ UNCHANGED telemetry_b
       \/ telemetry_b = NoTelemetry /\ telemetry_b' = WithoutDistance /\ UNCHANGED telemetry_a
    /\ UNCHANGED <<ghost_call, notGhost>>

----------------------------------------------------------------------------
(* scipy.interpolate.interp1d(x, y, fill_value="extrapolate") *)

\* ind = np.argsort(x, kind="mergesort"): a stable sort of the samples by x.
RECURSIVE InsertSample(_, _)
InsertSample(r, sorted) ==
    IF sorted = <<>> THEN <<r>>
    ELSE IF r.Distance < Head(sorted).Distance THEN <<r>> \o sorted
    ELSE <<Head(sorted)>> \o InsertSample(r, Tail(sorted))

RECURSIVE argsort(_)
argsort(rows) ==
    IF rows = <<>> THEN <<>>
    ELSE InsertSample(rows[Len(rows)], argsort(SubSeq(rows, 1, Len(rows) - 1)))

\* np.searchsorted(x, x_new): the number of samples with x < x_new.
searchsorted(xs, x_new) == Cardinality({i \in DOMAIN xs : xs[i].Distance < x_new})

clip(v, lo, hi) == IF v < lo THEN lo ELSE IF v > hi THEN hi ELSE v

\* interp1d._call_linear at one point x_new, xs being the sorted samples:
\* the line through the two samples around x_new, or through the first two
\* or the last two when x_new lies outside; a division by zero when the
\* two samples have the same x.
call_linear(xs, x_new) ==
    LET hi    == clip(searchsorted(xs, x_new), 1, Len(xs) - 1) + 1
        lo    == hi - 1
        slope == FloatDiv(xs[hi].Time - xs[lo].Time, xs[hi].Distance - xs[lo].Distance)
    IN  FloatAdd(FloatMul(slope, x_new - xs[lo].Distance), xs[lo].Time)

interp1d(rows, x_new) == call_linear(argsort(rows), x_new)

----------------------------------------------------------------------------
(* AnalysisEngine.calculate_ghost_delta *)

\* telemetry['Distance'].max()
MaxDistance(rows) ==
    CHOOSE d \in {rows[i].Distance : i \in DOMAIN rows} :
        \A i \in DOMAIN rows : rows[i].Distance <= d

\* np.arange(0, stop, step) for whole numbers.
arange(stop, step) ==
    [k \in 1 .. (IF stop <= 0 THEN 0 ELSE (stop + step - 1) \div step) |-> (k - 1) * step]

\* A delta with the traces swapped.
delta_b_minus_a(t_a, t_b) == FloatSub(t_b, t_a)

\* delta = t_a_interp - t_b_interp, at one point.
delta(t_a, t_b) == FloatSub(t_a, t_b)

calculate_ghost_delta(ta, tb) ==
    IF "Distance" \notin ta.columns \/ "Distance" \notin tb.columns
    THEN [k \in {} |-> <<>>]
    ELSE LET da          == MaxDistance(ta.rows)
             db          == MaxDistance(tb.rows)
             max_dist    == IF da < db THEN da ELSE db
             common_dist == arange(max_dist, 5)
         IN  [distance |-> common_dist,
              delta    |-> [k \in DOMAIN common_dist |->
                              delta(interp1d(ta.rows, common_dist[k]),
                                    interp1d(tb.rows, common_dist[k]))]]

\* The call: on two frames one of which lacks the distance channel, or on
\* two traces of at least two samples each.
CalculateGhostDelta ==
    /\ telemetry_a # NoTelemetry /\ telemetry_b # NoTelemetry
    /\ \/ "Distance" \notin telemetry_a.columns
       \/ "Distance" \notin telemetry_b.columns
       \/ Len(telemetry_a.rows) >= 2 /\ Len(telemetry_b.rows) >= 2
    /\ ghost_call' = [called |-> TRUE,
                      result |-> calculate_ghost_delta(telemetry_a, telemetry_b)]
    /\ UNCHANGED <<telemetry_a, telemetry_b, notGhost>>

----------------------------------------------------------------------------
(* Specification of the ghost aligner *)

InitGhost ==
    /\ laps = <<>>
    /\ race_gaps = NoCall
    /\ fuel_call = NoFuelCall
    /\ deg_call = NoDegCall
    /\ NoGhost
    /\ NoBest
    /\ NoProc

NextGhost ==
    \/ LoadSample
    \/ LoadWithoutDistance
    \/ CalculateGhostDelta

SpecGhost == InitGhost /\ [][NextGhost]_vars

----------------------------------------------------------------------------
(* Properties of the ghost aligner *)

\* Two traces with a distance channel have been compared.
Compared ==
    /\ ghost_call.called
    /\ "Distance" \in telemetry_a.columns
    /\ "Distance" \in telemetry_b.columns

\* The time at which a trace is at distance d, as the aligner reads it.
TimeAt(tel, d) == interp1d(tel.rows, d)

\* The samples a trace has at distance d.
SamplesAt(tel, d) == {i \in DOMAIN tel.rows : tel.rows[i].Distance = d}

\* The trace has exactly one sample at distance d, and it is sample i.
OnlySampleAt(tel, d, i) == SamplesAt(tel, d) = {i}

\* C16: the ghost delta is time_B - time_A at every point of the distance
\* axis, so that a positive delta means trace B is slower than trace A.
C16_DeltaIsTimeBMinusTimeA ==
    Compared =>
        \A k \in DOMAIN ghost_call.result.distance :
            ghost_call.result.delta[k]
                = FloatSub(TimeAt(telemetry_b, ghost_call.result.distance[k]),
                           TimeAt(telemetry_a, ghost_call.result.distance[k]))

\* C16, as the code has it: the ghost delta is time_A - time_B at every
\* point of the distance axis, so that a positive delta means trace A is
\* slower than trace B; where both traces have a single sample at the point,
\* the delta is the time of A's sample minus the time of B's sample.
C16_DeltaIsTimeAMinusTimeB ==
    Compared =>
        \A k \in DOMAIN ghost_call.result.distance :
            LET d == ghost_call.result.distance[k]
            IN  /\ ghost_call.result.delta[k]
                      = FloatSub(TimeAt(telemetry_a, d), TimeAt(telemetry_b, d))
                /\ \A i \in DOMAIN telemetry_a.rows, j \in DOMAIN telemetry_b.rows :
                      (OnlySampleAt(telemetry_a, d, i) /\ OnlySampleAt(telemetry_b, d, j)) =>
                          ghost_call.result.delta[k]
                              = telemetry_a.rows[i].Time - telemetry_b.rows[j].Time

\* Trace A passes a point of the axis later than trace B, both with a
\* sample at that point, and the delta there is positive.
C16_TraceASlowerAtAPoint ==
    /\ Compared
    /\ \E k \in DOMAIN ghost_call.result.distance :
          \E i \in DOMAIN telemetry_a.rows, j \in DOMAIN telemetry_b.rows :
              /\ OnlySampleAt(telemetry_a, ghost_call.result.distance[k], i)
              /\ OnlySampleAt(telemetry_b, ghost_call.result.distance[k], j)
              /\ telemetry_a.rows[i].Time > telemetry_b.rows[j].Time
              /\ IsFinite(ghost_call.result.delta[k])
              /\ ghost_call.result.delta[k] > 0

\* The smaller of the two traces' greatest distances.
CommonMaxDistance ==
    IF MaxDistance(telemetry_a.rows) < MaxDistance(telemetry_b.rows)
    THEN MaxDistance(telemetry_a.rows)
    ELSE MaxDistance(telemetry_b.rows)

\* The distance axis is the multiples of 5 m from 0 up to the traces'
\* common greatest distance, and the delta has one element per point.
AxisAligned ==
    /\ Len(ghost_call.result.delta) = Len(ghost_call.result.distance)
    /\ \A k \in DOMAIN ghost_call.result.distance :
          /\ ghost_call.result.distance[k] = 5 * (k - 1)
          /\ ghost_call.result.distance[k] <= CommonMaxDistance
    /\ 5 * Len(ghost_call.result.distance) >= CommonMaxDistance

\* C17: comparing a trace with an identical trace gives a delta of 0 at
\* every point, and a delta as long as the distance axis, the multiples of
\* 5 m from 0 up to the traces' greatest distance.
C17_IdenticalTracesZeroDelta ==
    (Compared /\ telemetry_a = telemetry_b) =>
        /\ AxisAligned
        /\ \A k \in DOMAIN ghost_call.result.delta : ghost_call.result.delta[k] = 0

\* C18: for any two traces with a distance channel, also with distance
\* samples that repeat and axis points outside a trace's range, the delta is
\* finite (neither NaN nor infinite) at every point of the axis and as long
\* as the axis.
C18_DeltaFiniteEverywhere ==
    Compared =>
        /\ AxisAligned
        /\ \A k \in DOMAIN ghost_call.result.delta : IsFinite(ghost_call.result.delta[k])

\* The two samples of least distance of a trace are at different distances.
StartMoves(tel) ==
    LET xs == argsort(tel.rows) IN xs[1].Distance # xs[2].Distance

\* What the code does: the delta is aligned with the axis; it is finite
\* whenever neither trace repeats its least distance, and 0 for identical
\* traces of that kind.
GhostDeltaFiniteWhenStartMoves ==
    Compared =>
        /\ AxisAligned
        /\ (StartMoves(telemetry_a) /\ StartMoves(telemetry_b)) =>
              \A k \in DOMAIN ghost_call.result.delta :
                  /\ IsFinite(ghost_call.result.delta[k])
                  /\ telemetry_a = telemetry_b => ghost_call.result.delta[k] = 0

----------------------------------------------------------------------------
(* The laps of the theoretical best lap, each with its telemetry *)

\* Laps of the driver in the session.
MaxBestLaps == 2

\* The micro-sectors of a lap.
N_SECTORS == 25

\* A tick of 0.1 s in the unit of the times: a multiple of N_SECTORS times
\* the distance step, so that a time interpolated at a sector boundary is a
\* whole number.
BestTick == N_SECTORS * 10

\* What a lap's telemetry can do from one sample to the next: stand still
\* for a tick (at the start of the lap only), cover 10 m in one tick or in
\* two.
LapSteps(rows) ==
    (IF Len(rows) = 1 THEN {[dd |-> 0, dt |-> 1]} ELSE {})
        \cup {[dd |-> 10, dt |-> 1], [dd |-> 10, dt |-> 2]}

\* A sample; its position on the track map follows the distance.
LapSample(d, t, n) == [Distance |-> d, Time |-> t, X |-> 100 + d, Y |-> 200 + n]

\* The traces of n samples: the time strictly increasing, the distance
\* never decreasing.
RECURSIVE LapTraces(_)
LapTraces(n) ==
    IF n = 0 THEN {<<>>}
    ELSE IF n = 1 THEN {<<LapSample(0, 0, 1)>>}
    ELSE UNION {{Append(t, LapSample(t[n - 1].Distance + st.dd,
                                     t[n - 1].Time + st.dt * BestTick, n)) :
                    st \in LapSteps(t)} :
                 t \in LapTraces(n - 1)}

\* The columns of a lap's telemetry, with and without position data.
TimingColumns == {"Distance", "Time"}
PositionColumns == {"X", "Y"}

\* The telemetry a lap can have: no sample at all, or one to three samples.
TelemetryTraces == UNION {LapTraces(n) : n \in 0 .. 3}

\* What lap.get_telemetry() can give: a frame with one of the traces, or an
\* exception.
TelemetryFrames(cols) ==
    {[status |-> "ok", columns |-> cols, rows |-> t] : t \in TelemetryTraces}
    \cup {[status |-> "unobtainable", columns |-> cols, rows |-> <<>>]}

\* The lap time the timing gives a lap: the time of its last sample; with
\* or without a time when the lap has no sample.
LapTimesOf(tel) ==
    IF tel.rows # <<>> THEN {tel.rows[Len(tel.rows)].Time} ELSE {NaN, BestTick}

\* The columns of the session's telemetry: those of the laps loaded so
\* far, with or without position data for the first lap.
SessionColumns(df) ==
    IF df = <<>> THEN {TimingColumns, TimingColumns \cup PositionColumns}
    ELSE {df[1].Telemetry.columns}

\* What keeps a lap from being accurate: nothing, an inaccurate timing, or
\* leaving the pits (the first lap only).
BestFlaws(df) == {"none", "inaccurate"} \cup (IF df = <<>> THEN {"pitout"} ELSE {})

BestRow(n, flaw, t, tel) ==
    [Driver     |-> "A",
     LapNumber  |-> n,
     LapTime    |-> t,
     IsAccurate |-> flaw = "none",
     PitInTime  |-> NaN,
     PitOutTime |-> IF flaw = "pitout" THEN SessionTime("A", n) ELSE NaN,
     Telemetry  |-> tel]

\* F1Processor.load_session: self.laps = session.laps.
LoadSession ==
    /\ ~loaded
    /\ loaded' = TRUE
    /\ laps' = <<>>
    /\ UNCHANGED <<best_call, notBest>>

\* The session has one more lap of driver A.
LoadBestLap ==
    /\ loaded
    /\ ~best_call.called
    /\ Len(laps) < MaxBestLaps
    /\ \E flaw \in BestFlaws(laps), cols \in SessionColumns(laps) :
          \E tel \in TelemetryFrames(cols) :
              \E t \in LapTimesOf(tel) :
                  laps' = Append(laps, BestRow(Len(laps) + 1, flaw, t, tel))
    /\ UNCHANGED <<loaded, best_call, notBest>>

----------------------------------------------------------------------------
(* numpy.interp and DataFrame.sort_values(by='Distance') *)

\* The sequences that hold the same rows as rows, each as often.
RowOrders(rows) ==
    {[k \in DOMAIN rows |-> rows[f[k]]] :
        f \in {g \in [DOMAIN rows -> DOMAIN rows] : \A i, j \in DOMAIN rows : i # j => g[i] # g[j]}}

\* tel.sort_values(by='Distance'): the default sort (quicksort) is not
\* stable, so rows of equal Distance come out in any order.
sort_values_by_Distance(rows) ==
    {p \in RowOrders(rows) :
        \A i \in 1 .. Len(p) - 1 : p[i].Distance <= p[i + 1].Distance}

\* np.interp(x, xp, fp) at one point, x25 being 25 times x in m: fp[0]
\* below xp[0], fp[-1] above xp[-1]; otherwise, with j the last sample
\* whose xp is not above x, fp[j] when x is xp[j] or j is the last sample,
\* and the line from sample j to sample j + 1 in between.
np_interp(x25, xs) ==
    LET n == Len(xs)
    IN  IF x25 = NaN THEN NaN
        ELSE IF x25 < N_SECTORS * xs[1].Distance THEN xs[1].Time
        ELSE IF x25 > N_SECTORS * xs[n].Distance THEN xs[n].Time
        ELSE LET j == CHOOSE i \in 1 .. n :
                        /\ N_SECTORS * xs[i].Distance <= x25
                        /\ \A k \in 1 .. n : N_SECTORS * xs[k].Distance <= x25 => k <= i
             IN  IF j = n \/ N_SECTORS * xs[j].Distance = x25 THEN xs[j].Time
                 ELSE xs[j].Time
                        + ((xs[j + 1].Time - xs[j].Time) * (x25 - N_SECTORS * xs[j].Distance))
                            \div (N_SECTORS * (xs[j + 1].Distance - xs[j].Distance))

\* np.diff
np_diff(s) == [k \in 1 .. Len(s) - 1 |-> FSub(s[k + 1], s[k])]

\* np.sum
RECURSIVE np_sum(_)
np_sum(s) ==
    IF s = <<>> THEN 0
    ELSE LET rest == np_sum(Tail(s))
         IN  IF Head(s) = NaN \/ rest = NaN THEN NaN ELSE Head(s) + rest

----------------------------------------------------------------------------
(* F1Processor.get_theoretical_best_lap *)

pick_driver(df, driver) == SelectSeq(df, LAMBDA r : r.Driver = driver)

pick_accurate(df) == SelectSeq(df, LAMBDA r : r.IsAccurate = TRUE)

pick_wo_box(df) == SelectSeq(df, LAMBDA r : r.PitInTime = NaN /\ r.PitOutTime = NaN)

\* The row of the least LapTime, the first of them; 0 for None, when no
\* lap has a time.
pick_fastest(df) ==
    LET timed == {i \in DOMAIN df : df[i].LapTime # NaN}
    IN  IF timed = {} THEN 0
        ELSE CHOOSE i \in timed :
                \A j \in timed : df[i].LapTime < df[j].LapTime
                                 \/ (df[i].LapTime = df[j].LapTime /\ i <= j)

\* The laps of d_laps whose telemetry is obtained and not empty.
UsableLaps(d_laps) ==
    SelectSeq(d_laps, LAMBDA r : r.Telemetry.status = "ok" /\ r.Telemetry.rows # <<>>)

\* The ways sort_values can order the telemetry of each usable lap.
SortChoices(d_laps) ==
    LET usable == UsableLaps(d_laps)
    IN  {c \in [DOMAIN usable -> UNION {sort_values_by_Distance(usable[k].Telemetry.rows) :
                                            k \in DOMAIN usable}] :
            \A k \in DOMAIN usable : c[k] \in sort_values_by_Distance(usable[k].Telemetry.rows)}

\* boundaries = [i * chunk_size for i in range(N_SECTORS + 1)], each times
\* N_SECTORS; NaN when the reference telemetry is empty.
Boundaries(max_dist) ==
    [i \in 1 .. N_SECTORS + 1 |-> IF max_dist = NaN THEN NaN ELSE (i - 1) * max_dist]

\* sector_durations of one lap.
SectorDurations(boundaries, xs) ==
    np_diff([i \in DOMAIN boundaries |-> np_interp(boundaries[i], xs)])

\* np.min(matrix, axis=0): NaN when a row has NaN in the column.
ColumnMin(matrix, i) ==
    IF \E r \in DOMAIN matrix : matrix[r][i] = NaN THEN NaN
    ELSE CHOOSE v \in {matrix[r][i] : r \in DOMAIN matrix} :
            \A r \in DOMAIN matrix : v <= matrix[r][i]

\* A call that ends before the sectors are computed.
EarlyReturn(driver, raised) ==
    [called |-> TRUE, driver |-> driver, raised |-> raised, result |-> [k \in {} |-> 0],
     valid_laps_telemetry |-> <<>>, all_laps_sectors |-> <<>>,
     ref_sector_times |-> <<>>, deltas |-> <<>>]

\* The segments of the track map: one for each sector that holds a sample
\* of the reference lap.
RECURSIVE MapSegments(_, _, _, _, _)
MapSegments(i, boundaries, ref_rows, deltas, ref_sector_times) ==
    IF i > N_SECTORS THEN <<>>
    ELSE LET segment_points ==
                 SelectSeq(ref_rows, LAMBDA r :
                     /\ N_SECTORS * r.Distance >= boundaries[i]
                     /\ N_SECTORS * r.Distance <= boundaries[i + 1])
             rest == MapSegments(i + 1, boundaries, ref_rows, deltas, ref_sector_times)
         IN  IF segment_points = <<>> THEN rest
             ELSE <<[sector_index |-> i,
                     x            |-> [k \in DOMAIN segment_points |-> segment_points[k].X],
                     y            |-> [k \in DOMAIN segment_points |-> segment_points[k].Y],
                     time_lost    |-> deltas[i],
                     pct_lost     |-> IF ref_sector_times[i] > 0
                                      THEN [num |-> deltas[i], den |-> ref_sector_times[i]]
                                      ELSE [num |-> 0, den |-> 1]]>> \o rest

\* The sectors and the result, the telemetry of usable lap k sorted as
\* sorted[k].
BestLapSectors(driver, d_laps, ref_tel, sorted) ==
    LET max_dist   == IF ref_tel.rows = <<>> THEN NaN ELSE MaxDistance(ref_tel.rows)
        boundaries == Boundaries(max_dist)
        matrix     == [k \in DOMAIN sorted |-> SectorDurations(boundaries, sorted[k])]
        best_sector_times == [i \in 1 .. N_SECTORS |-> ColumnMin(matrix, i)]
        theoretical_best_time == np_sum(best_sector_times)
    IN  IF ref_tel.rows = <<>>
        THEN \* np.interp(boundaries, ref_dist, ref_time) on no sample
             [EarlyReturn(driver, "ValueError") EXCEPT
                 !.valid_laps_telemetry = sorted, !.all_laps_sectors = matrix]
        ELSE LET ref_sector_times == SectorDurations(boundaries, ref_tel.rows)
                 actual_best_time == np_sum(ref_sector_times)
                 deltas == [i \in 1 .. N_SECTORS |-> FSub(ref_sector_times[i], best_sector_times[i])]
             IN  [called |-> TRUE, driver |-> driver, raised |-> "",
                  result |->
                      IF "X" \notin ref_tel.columns THEN [error |-> "No GPS data"]
                      ELSE [driver           |-> driver,
                            theoretical_best |-> theoretical_best_time,
                            actual_best      |-> actual_best_time,
                            diff             |-> FSub(actual_best_time, theoretical_best_time),
                            segments         |-> MapSegments(1, boundaries, ref_tel.rows,
                                                             deltas, ref_sector_times)],
                  valid_laps_telemetry |-> sorted,
                  all_laps_sectors |-> matrix,
                  ref_sector_times |-> ref_sector_times, deltas |-> deltas]

\* The laps the sectors are taken from: the accurate laps, or the laps that
\* are neither in-laps nor out-laps when none is accurate.
ValidLaps(df, driver) ==
    LET driver_laps == pick_driver(df, driver)
    IN  IF pick_accurate(driver_laps) # <<>> THEN pick_accurate(driver_laps)
        ELSE pick_wo_box(driver_laps)

\* The outcomes of get_theoretical_best_lap(driver), one for each way the
\* sorts can come out.
get_theoretical_best_lap(df, driver) ==
    LET d_laps == ValidLaps(df, driver)
        f      == pick_fastest(d_laps)
    IN  IF d_laps = <<>> \/ f = 0 \/ d_laps[f].Telemetry.status # "ok"
           \/ UsableLaps(d_laps) = <<>>
        THEN {EarlyReturn(driver, "")}
        ELSE {BestLapSectors(driver, d_laps, d_laps[f].Telemetry, sorted) :
                 sorted \in SortChoices(d_laps)}

BestDrivers == {"A", "B"}

GetTheoreticalBestLap ==
    /\ ~best_call.called
    /\ \E driver \in BestDrivers :
          IF ~loaded
          THEN best_call' = EarlyReturn(driver, "No session loaded")
          ELSE best_call' \in get_theoretical_best_lap(laps, driver)
    /\ UNCHANGED <<laps, loaded, notBest>>

----------------------------------------------------------------------------
(* Specification of the theoretical best lap *)

InitBest ==
    /\ laps = <<>>
    /\ race_gaps = NoCall
    /\ fuel_call = NoFuelCall
    /\ deg_call = NoDegCall
    /\ NoGhost
    /\ NoBest
    /\ NoProc

NextBest ==
    \/ LoadSession
    \/ LoadBestLap
    \/ GetTheoreticalBestLap

SpecBest == InitBest /\ [][NextBest]_vars

----------------------------------------------------------------------------
(* Properties of the theoretical best lap *)

\* The call has computed the sectors of at least one usable lap and those
\* of the reference lap.
SectorsComputed ==
    /\ best_call.called
    /\ best_call.raised = ""
    /\ best_call.deltas # <<>>

\* The call has returned the two lap times.
BestReported == best_call.called /\ "theoretical_best" \in DOMAIN best_call.result

\* The telemetry of the reference lap of the call.
RefTelemetry ==
    LET d_laps == ValidLaps(laps, best_call.driver)
    IN  d_laps[pick_fastest(d_laps)].Telemetry

\* C19: for a driver with at least one usable lap, the returned
\* theoretical_best is <= actual_best (diff >= 0) and the time lost in
\* every micro-sector is >= 0.
C19_TheoreticalBestAtMostActual ==
    /\ SectorsComputed => \A i \in 1 .. N_SECTORS : best_call.deltas[i] >= 0
    /\ BestReported =>
          /\ best_call.result.theoretical_best <= best_call.result.actual_best
          /\ best_call.result.diff >= 0
          /\ \A k \in DOMAIN best_call.result.segments :
                best_call.result.segments[k].time_lost >= 0

\* sort_values has left the telemetry of every usable lap in its order.
SortsKeptOrder ==
    LET usable == UsableLaps(ValidLaps(laps, best_call.driver))
    IN  \A k \in DOMAIN best_call.valid_laps_telemetry :
            best_call.valid_laps_telemetry[k] = usable[k].Telemetry.rows

\* What the code guarantees: whenever the sorts have left the samples of
\* equal distance in their order, the row of the reference lap is its own
\* sector durations and no sector loses a negative time.
TheoreticalBestWhenSortsKeepOrder ==
    (SectorsComputed /\ SortsKeptOrder) =>
        /\ \A i \in 1 .. N_SECTORS : best_call.deltas[i] >= 0
        /\ BestReported =>
              /\ best_call.result.theoretical_best <= best_call.result.actual_best
              /\ best_call.result.diff
                    = best_call.result.actual_best - best_call.result.theoretical_best

\* The time of a trace at x25 / 25 m as the ghost aligner's interpolant
\* gives it: the line through the two samples around the point, or through
\* the first two or the last two samples when the point lies outside; NaN
\* when the two samples have the same distance.
Extrapolated(x25, xs) ==
    LET hi == clip(Cardinality({i \in DOMAIN xs : N_SECTORS * xs[i].Distance < x25}),
                   1, Len(xs) - 1) + 1
        lo == hi - 1
    IN  IF xs[hi].Distance = xs[lo].Distance THEN NaN
        ELSE xs[lo].Time
               + ((xs[hi].Time - xs[lo].Time) * (x25 - N_SECTORS * xs[lo].Distance))
                   \div (N_SECTORS * (xs[hi].Distance - xs[lo].Distance))

\* C20: the boundary times of every valid lap come from the interpolant of
\* the ghost aligner, a boundary beyond the lap's samples being extrapolated
\* along the end segment rather than clamped to the end sample; so a lap
\* whose telemetry ends before the reference lap's greatest distance has no
\* sector of duration 0.
C20_BoundariesExtrapolated ==
    SectorsComputed =>
        \A k \in DOMAIN best_call.valid_laps_telemetry :
            LET xs == best_call.valid_laps_telemetry[k]
                boundaries == Boundaries(MaxDistance(RefTelemetry.rows))
            IN  Len(xs) >= 2 =>
                   /\ best_call.all_laps_sectors[k]
                         = np_diff([i \in DOMAIN boundaries |-> Extrapolated(boundaries[i], xs)])
                   /\ MaxDistance(xs) < MaxDistance(RefTelemetry.rows) =>
                         \A i \in 1 .. N_SECTORS : best_call.all_laps_sectors[k][i] # 0

\* What the code does: np.interp holds the time of the last sample beyond
\* the lap's greatest distance, so every sector that starts at or beyond it
\* has duration 0.
BoundariesClampedBeyondLastSample ==
    SectorsComputed =>
        \A k \in DOMAIN best_call.valid_laps_telemetry :
            LET xs == best_call.valid_laps_telemetry[k]
                boundaries == Boundaries(MaxDistance(RefTelemetry.rows))
            IN  \A i \in 1 .. N_SECTORS :
                    boundaries[i] >= N_SECTORS * MaxDistance(xs) =>
                        best_call.all_laps_sectors[k][i] = 0

\* A lap whose telemetry ends before the reference lap's greatest distance
\* has given the sectors beyond its end a duration of 0.
ShortLapGaveZeroSectors ==
    /\ SectorsComputed
    /\ \E k \in DOMAIN best_call.valid_laps_telemetry :
          /\ MaxDistance(best_call.valid_laps_telemetry[k]) < MaxDistance(RefTelemetry.rows)
          /\ MaxDistance(best_call.valid_laps_telemetry[k]) > 0
          /\ best_call.all_laps_sectors[k][N_SECTORS] = 0

\* The call has computed the sectors from a reference lap whose telemetry
\* has the distance and time channels but no position channel.
NoPositionChannel ==
    /\ SectorsComputed
    /\ TimingColumns \subseteq RefTelemetry.columns
    /\ "X" \notin RefTelemetry.columns

\* C21: when the reference lap's telemetry has usable distance and time
\* channels but no X/Y position channel, only the track map is left out:
\* the result still reports driver, theoretical_best, actual_best and diff,
\* and it differs from the empty result of a driver without usable timing.
C21_TimesReportedWithoutPosition ==
    NoPositionChannel =>
        /\ {"driver", "theoretical_best", "actual_best", "diff"}
               \subseteq DOMAIN best_call.result
        /\ best_call.result # EarlyReturn(best_call.driver, "").result

\* What the code does: without a position channel the result holds the
\* error alone, which still differs from the empty result.
NoPositionGivesErrorAlone ==
    NoPositionChannel =>
        /\ best_call.result = [error |-> "No GPS data"]
        /\ best_call.result # EarlyReturn(best_call.driver, "").result

----------------------------------------------------------------------------
(* The sessions of the data provider *)

\* The sessions a caller asks for: two events of 2023, and the first of
\* them as the simulated season 2025.
SessionKeys ==
    {[year |-> 2023, gp |-> "X"], [year |-> 2023, gp |-> "Y"], [year |-> 2025, gp |-> "X"]}

\* What the provider does with a request: it delivers the session, the
\* schedule or the session cannot be fetched, or the session's data cannot
\* be loaded.
ProviderOutcomes == {"ok", "schedule_error", "load_error"}

TeamOf(d) == IF d = "A" THEN "Ferrari" ELSE "Mercedes"

\* The car data of a lap after add_distance(): three samples 5 m apart,
\* the times in units of 1 / 400 s; the car brakes at the last sample.
CarTrace(slow) ==
    [k \in 1 .. 3 |->
        [Distance |-> 5 * (k - 1),
         Time     |-> (k - 1) * (1 + slow) * TimeTick,
         Speed    |-> 300 - 10 * slow - k,
         Throttle |-> IF k = 3 THEN 0 ELSE 100,
         Brake    |-> k = 3,
         RPM      |-> 11000 + k,
         nGear    |-> 8,
         DRS      |-> 0]]

\* The merged telemetry of a lap: three samples 10 m apart.
LapTrace(slow) ==
    [k \in 1 .. 3 |-> LapSample(10 * (k - 1), (k - 1) * (1 + slow) * BestTick, k)]

\* A row of the provider's lap table.
ProviderRow(d, n, time, pos, laptime, stint, slow) ==
    [Driver     |-> d,
     Team       |-> TeamOf(d),
     LapNumber  |-> n,
     Time       |-> time,
     Position   |-> pos,
     LapTime    |-> laptime,
     PitInTime  |-> NaN,
     PitOutTime |-> NaN,
     IsAccurate |-> TRUE,
     Compound   |-> IF n = 1 THEN "SOFT" ELSE "HARD",
     Stint      |-> stint,
     TyreLife   |-> n,
     TrackStatus |-> "1",
     Sector1Time |-> 300000,
     Sector2Time |-> 300000,
     Sector3Time |-> IF n = 1 THEN NaN ELSE laptime - 600000,
     IsPersonalBest |-> n = 1,
     SpeedI1    |-> NaN,
     SpeedFL    |-> 290 - 10 * slow,
     SpeedST    |-> 300 - 10 * slow,
     Telemetry  |-> [status |-> "ok", columns |-> TimingColumns \cup PositionColumns,
                     rows |-> LapTrace(slow)],
     CarData    |-> [columns |-> TelemetryColumns, rows |-> CarTrace(slow)]]

\* session.laps of the 2023 session of an event: two laps of A and of B,
\* A leading at X and B leading at Y.
ProviderLaps(gp) ==
    IF gp = "X"
    THEN << ProviderRow("A", 1,  900000, 1, 900000, 1, 0),
            ProviderRow("B", 1,  915000, 2, 915000, 1, 1),
            ProviderRow("A", 2, 1810000, 1, 910000, 1, 1),
            ProviderRow("B", 2, 1830000, 2, 915000, 1, 1) >>
    ELSE << ProviderRow("B", 1,  790000, 1, 790000, NaN, 0),
            ProviderRow("A", 1,  800000, 2, 800000, NaN, 2),
            ProviderRow("B", 2, 1600000, 1, 810000, NaN, 1),
            ProviderRow("A", 2, 1620000, 2, 820000, NaN, 1) >>

\* session.get_circuit_info(): the corners of X; the provider has none for
\* Y and the call fails.
CircuitCorners(gp) ==
    IF gp = "X" THEN <<[number |-> 1, distance |-> 5]>> ELSE <<>>

EventName(gp) == IF gp = "X" THEN "X Grand Prix" ELSE "Y Grand Prix"
Location(gp) == IF gp = "X" THEN "X City" ELSE "Y City"

----------------------------------------------------------------------------
(* core/config.py *)

TEAM_COLORS ==
    [t \in {"Red Bull Racing", "Ferrari", "Mercedes"} |->
        CASE t = "Red Bull Racing" -> "#3671C6"
          [] t = "Ferrari" -> "#E80020"
          [] OTHER -> "#27F4D2"]

DEFAULT_COLOR == "#FFFFFF"

\* The 2025 grid: C drives the car of B for Red Bull Racing, A stays.
GRID_2025 ==
    [d \in {"A", "C"} |->
        IF d = "A" THEN [source |-> "A", team |-> "Ferrari"]
        ELSE [source |-> "B", team |-> "Red Bull Racing"]]

\* The teams of the sessions are spelt as the keys of TEAM_COLORS, so the
\* case-insensitive search finds nothing the direct match has not found.
get_team_color(team_name) ==
    IF team_name = "" THEN DEFAULT_COLOR
    ELSE IF team_name \in DOMAIN TEAM_COLORS THEN TEAM_COLORS[team_name]
    ELSE DEFAULT_COLOR

----------------------------------------------------------------------------
(* F1Processor.load_session *)

\* list.sort(key=...): a stable sort by a key of two numbers; key[i] is
\* the key of s[i].
StableSort(s, key) ==
    LET Before(i, j) ==
            \/ key[i][1] < key[j][1]
            \/ key[i][1] = key[j][1] /\ key[i][2] < key[j][2]
            \/ key[i] = key[j] /\ i < j
        rank(i) == 1 + Cardinality({j \in DOMAIN s : Before(j, i)})
    IN  [p \in DOMAIN s |-> s[CHOOSE i \in DOMAIN s : rank(i) = p]]

\* laps['Driver'].unique(): the drivers in the order of their first rows.
DriversOf(df) == Unique([i \in DOMAIN df |-> df[i].Driver], <<>>)

\* The simulation patch: the Driver column renamed from the 2023 driver to
\* the 2025 driver, then the Team column set for every driver of the grid.
SimulationPatch(df) ==
    LET source_to_new(x) ==
            IF \E k \in DOMAIN GRID_2025 : GRID_2025[k].source = x
            THEN CHOOSE k \in DOMAIN GRID_2025 : GRID_2025[k].source = x
            ELSE x
        renamed == [i \in DOMAIN df |-> [df[i] EXCEPT !.Driver = source_to_new(@)]]
    IN  [i \in DOMAIN df |->
            IF renamed[i].Driver \in DOMAIN GRID_2025
            THEN [renamed[i] EXCEPT !.Team = GRID_2025[renamed[i].Driver].team]
            ELSE renamed[i]]

\* The entry of one driver in the driver list of the session info.
DriverInfo(df, driver) ==
    LET d_laps  == pick_driver(df, driver)
        fastest == pick_fastest(d_laps)
    IN  [code       |-> driver,
         team       |-> d_laps[1].Team,
         color      |-> get_team_color(d_laps[1].Team),
         position   |-> IF fastest # 0 /\ notna(d_laps[fastest].Position)
                        THEN d_laps[fastest].Position ELSE 99,
         bestLapVal |-> IF fastest # 0 THEN d_laps[fastest].LapTime ELSE None]

\* The driver list: sorted by best lap time, a driver without a time last
\* (float('inf') until the list is sorted), then by position.
DriverList(df) ==
    LET drivers == DriversOf(df)
        infos   == [i \in DOMAIN drivers |-> DriverInfo(df, drivers[i])]
    IN  StableSort(infos,
            [i \in DOMAIN infos |->
                <<IF infos[i].bestLapVal = None THEN Inf ELSE infos[i].bestLapVal,
                  infos[i].position>>])

\* max of a column of whole numbers.
ColumnMax(df, col(_)) ==
    CHOOSE v \in {col(df[i]) : i \in DOMAIN df} : \A i \in DOMAIN df : col(df[i]) <= v

SessionInfo(year, gp, df) ==
    [year        |-> year,
     gp          |-> gp,
     sessionType |-> "R",
     eventName   |-> EventName(gp),
     circuitName |-> Location(gp),
     drivers     |-> DriverList(df),
     corners     |-> CircuitCorners(gp),
     totalLaps   |-> IF Len(df) > 0 THEN ColumnMax(df, LAMBDA r : r.LapNumber) ELSE 0]

\* The processor without a session: what lines 123-125 leave.
Cleared ==
    [session |-> NoSession, loaded |-> FALSE, laps |-> <<>>,
     session_info |-> [k \in {} |-> 0]]

\* Variant: a failed load puts the processor back as it was found.
KeptOnFailure(before, after) == IF after.loaded THEN after ELSE before

\* What load_session leaves of the processor it found.
ClearedFirst(before, after) == after

\* load_session(year, gp, 'R'): the processor it leaves, and what it
\* returns or raises.
load_session(year, gp, outcome) ==
    LET target_year   == IF year >= 2025 THEN 2023 ELSE year
        is_simulation == year >= 2025
        fetched       == [year |-> target_year, gp |-> gp]
        provided      == ProviderLaps(gp)
        df            == IF is_simulation THEN SimulationPatch(provided) ELSE provided
    IN  IF outcome = "schedule_error"
        THEN [self |-> Cleared, raised |-> "Failed to load session",
              result |-> [k \in {} |-> 0]]
        ELSE IF outcome = "load_error"
        THEN [self |-> [Cleared EXCEPT !.session = fetched],
              raised |-> "Failed to load session", result |-> [k \in {} |-> 0]]
        ELSE [self |-> [session |-> fetched, loaded |-> TRUE, laps |-> df,
                        session_info |-> SessionInfo(year, gp, df)],
              raised |-> "", result |-> SessionInfo(year, gp, df)]

\* The processor as a value.
Self == [session |-> session, loaded |-> loaded, laps |-> laps,
         session_info |-> session_info]

\* A route: the processor's result as the body of a 200 response, its
\* exception as the detail of a 500 response.
Response(c, route, args, call) ==
    [to     |-> c,
     route  |-> route,
     args   |-> args,
     status |-> IF call.raised = "" THEN 200 ELSE 500,
     detail |-> call.raised,
     body   |-> IF call.raised = "" THEN call.result ELSE <<>>]

\* GET /session/init
InitSession ==
    \E c \in Callers, key \in SessionKeys, outcome \in ProviderOutcomes :
        LET call  == load_session(key.year, key.gp, outcome)
            after == ClearedFirst(Self, call.self)
        IN  /\ session' = after.session
            /\ loaded' = after.loaded
            /\ laps' = after.laps
            /\ session_info' = after.session_info
            /\ reply' = Response(c, "/session/init", <<key.year, key.gp>>, call)
            /\ callers' = [callers EXCEPT ![c] = IF call.raised = "" THEN key ELSE NoSession]
            /\ last_load' = [invoked |-> TRUE, key |-> key,
                             returned |-> call.raised = "", laps |-> after.laps]
            /\ UNCHANGED notProc

----------------------------------------------------------------------------
(* The analysis methods of F1Processor *)

\* What a method gives: a result, or the exception it raises.
Returned(result) == [raised |-> "", result |-> result]
Raised(message) == [raised |-> message, result |-> <<>>]

\* Variant: the method goes on without a lap table.
guard_skipped(self) == FALSE

\* "if self.laps is None: raise Exception('No session loaded')"
no_session(self) == ~self.loaded

\* The driver codes a caller writes, and str.upper() of them.
RouteCodes == {"A", "b"}
upper(code) == IF code = "b" THEN "B" ELSE code

\* d_laps.iloc[-1]['Position'], 999 when it is missing.
FinalPosition(d_laps) ==
    IF notna(d_laps[Len(d_laps)].Position) THEN d_laps[Len(d_laps)].Position ELSE 999

\* The drivers in the order of the position of their last lap.
FinishOrder(df) ==
    LET drivers == DriversOf(df)
    IN  StableSort(drivers,
            [i \in DOMAIN drivers |-> <<FinalPosition(pick_driver(df, drivers[i])), 0>>])

\* get_race_gaps_v2()
get_race_gaps_v2(self) ==
    IF no_session(self) THEN Raised("No session loaded")
    ELSE LET sorted_drivers == FinishOrder(self.laps)
             gaps_data      == calculate_race_gaps(self.laps, sorted_drivers)
             reported       == SelectSeq(sorted_drivers, LAMBDA d : d \in DOMAIN gaps_data.data)
         IN  IF gaps_data.raised THEN Raised("TypeError")
             ELSE Returned([i \in DOMAIN reported |->
                     [driver |-> reported[i],
                      color  |-> get_team_color(pick_driver(self.laps, reported[i])[1].Team),
                      data   |-> gaps_data.data[reported[i]]]])

\* get_fuel_corrected_laps(driver_code)
get_fuel_corrected_laps(self, driver_code) ==
    IF no_session(self) THEN Raised("No session loaded")
    ELSE Returned(calculate_fuel_correction(pick_driver(self.laps, driver_code),
                     DefaultStartFuel, DefaultBurnRate, DefaultTimeLoss))

\* session_info.get('corners', [])
CornersOf(self) ==
    IF "corners" \in DOMAIN self.session_info THEN self.session_info.corners ELSE <<>>

\* lap.get_car_data().add_distance().add_relative_distance()
CarTelemetry(lap) ==
    [columns |-> lap.CarData.columns \cup {"RelativeDistance"}, rows |-> lap.CarData.rows]

\* get_ghost_trace(driver1, driver2)
get_ghost_trace(self, driver1, driver2) ==
    IF no_session(self) THEN Raised("No session loaded")
    ELSE LET d1_laps == pick_driver(self.laps, driver1)
             d2_laps == pick_driver(self.laps, driver2)
             lap1    == pick_fastest(d1_laps)
             lap2    == pick_fastest(d2_laps)
         IN  IF d1_laps = <<>> \/ d2_laps = <<>> THEN Raised("Missing laps")
             ELSE IF lap1 = 0 \/ lap2 = 0 THEN Raised("No valid fastest lap")
             ELSE LET delta_data == calculate_ghost_delta(CarTelemetry(d1_laps[lap1]),
                                                          CarTelemetry(d2_laps[lap2]))
                  IN  Returned(
                        [driver1  |-> driver1,
                         driver2  |-> driver2,
                         distance |-> IF "distance" \in DOMAIN delta_data
                                      THEN delta_data.distance ELSE <<>>,
                         delta    |-> IF "delta" \in DOMAIN delta_data
                                      THEN delta_data.delta ELSE <<>>,
                         corners  |-> CornersOf(self)])

\* get_theoretical_best_lap(driver): the outcomes, one for each way the
\* sorts can come out.
TheoreticalBest(self, driver) ==
    IF no_session(self) THEN {Raised("No session loaded")}
    ELSE {[raised |-> call.raised, result |-> call.result] :
             call \in get_theoretical_best_lap(self.laps, driver)}

\* A missing value in the Compound column, a column of strings.
NoCompound == "nan"

\* lap['Compound'] if pd.notna(lap['Compound']) else 'UNKNOWN'
CompoundOf(lap) == IF lap.Compound # NoCompound THEN lap.Compound ELSE "UNKNOWN"

\* value if pd.notna(value) else default
or_default(value, default) == IF notna(value) THEN value ELSE default

\* get_driver_laps(driver_code)
get_driver_laps(self, driver_code) ==
    IF no_session(self) THEN Raised("No session loaded")
    ELSE LET d_laps == pick_driver(self.laps, driver_code)
             timed  == SelectSeq(d_laps, LAMBDA lap : notna(lap.LapTime))
         IN  Returned([i \in DOMAIN timed |->
                 [lapNumber      |-> timed[i].LapNumber,
                  lapTime        |-> timed[i].LapTime,
                  sector1        |-> or_default(timed[i].Sector1Time, None),
                  sector2        |-> or_default(timed[i].Sector2Time, None),
                  sector3        |-> or_default(timed[i].Sector3Time, None),
                  compound       |-> CompoundOf(timed[i]),
                  tyreLife       |-> or_default(timed[i].TyreLife, 0),
                  isPersonalBest |-> timed[i].IsPersonalBest,
                  isPitOut       |-> notna(timed[i].PitOutTime),
                  isPitIn        |-> notna(timed[i].PitInTime)]])

\* The greatest of a set of whole numbers, 0 for none.
MaxOf(S) == IF S = {} THEN 0 ELSE CHOOSE m \in S : \A n \in S : n <= m

\* The least of a set of whole numbers.
MinOf(S) == CHOOSE m \in S : \A n \in S : m <= n

\* get_race_gaps(): the lap table has no GapToLeader column, lap.get gives
\* None for it.
get_race_gaps(self) ==
    IF no_session(self) THEN Raised("No session loaded")
    ELSE LET drivers == DriversOf(self.laps)
             gaps(d) ==
                LET d_laps   == pick_driver(self.laps, d)
                    numbered == SelectSeq(d_laps, LAMBDA lap : notna(lap.LapNumber))
                IN  [i \in DOMAIN numbered |->
                        [lap         |-> numbered[i].LapNumber,
                         position    |-> or_default(numbered[i].Position, None),
                         gapToLeader |-> None]]
         IN  Returned(
               [drivers |-> [d \in {drivers[i] : i \in DOMAIN drivers} |->
                               [gaps  |-> gaps(d),
                                color |-> get_team_color(pick_driver(self.laps, d)[1].Team)]],
                maxLap  |-> MaxOf(UNION {{gaps(drivers[i])[k].lap :
                                            k \in DOMAIN gaps(drivers[i])} :
                                          i \in DOMAIN drivers})])

\* d_laps.sort_values('LapNumber'): a stable sort.
SortByLapNumber(d_laps) ==
    StableSort(d_laps, [i \in DOMAIN d_laps |-> <<d_laps[i].LapNumber, 0>>])

\* Variant: the stint that ends reaches the lap on which the compound changes.
changed_on(lap_num) == lap_num

\* "endLap": lap_num - 1
lap_before(lap_num) == lap_num - 1

\* The stints by change of compound: the loop over the sorted laps, st
\* holding stints, current_compound and stint_start (None before the first
\* lap), then the stint still open after the loop.
RECURSIVE CompoundScan(_, _, _)
CompoundScan(d_laps, k, st) ==
    IF k > Len(d_laps) THEN st
    ELSE LET compound == CompoundOf(d_laps[k])
             lap_num  == d_laps[k].LapNumber
         IN  CompoundScan(d_laps, k + 1,
               IF compound # st.current_compound
               THEN [stints |-> IF st.current_compound # "None"
                                THEN Append(st.stints,
                                        [compound |-> st.current_compound,
                                         startLap |-> st.stint_start,
                                         endLap   |-> lap_before(lap_num)])
                                ELSE st.stints,
                     current_compound |-> compound,
                     stint_start      |-> lap_num]
               ELSE st)

FallbackStints(unsorted) ==
    LET d_laps == SortByLapNumber(unsorted)
        st     == CompoundScan(d_laps, 1,
                     [stints |-> <<>>, current_compound |-> "None", stint_start |-> None])
    IN  IF st.current_compound # "None"
        THEN Append(st.stints,
                [compound |-> st.current_compound,
                 startLap |-> st.stint_start,
                 endLap   |-> MaxOf({d_laps[i].LapNumber : i \in DOMAIN d_laps})])
        ELSE st.stints

\* The stints by d_laps.groupby('Stint'): one per stint id in ascending
\* order, the rows without a stint id left out.
StintGroups(d_laps) ==
    LET ids    == {d_laps[i].Stint : i \in DOMAIN d_laps} \ {NaN}
        sorted == StableSort([i \in DOMAIN d_laps |-> d_laps[i].Stint],
                             [i \in DOMAIN d_laps |-> <<d_laps[i].Stint, 0>>])
        order  == SelectSeq(Unique(sorted, <<>>), LAMBDA id : id \in ids)
        group(id) == SelectSeq(d_laps, LAMBDA lap : lap.Stint = id)
    IN  [g \in DOMAIN order |->
            LET stint_laps == group(order[g])
                first      == stint_laps[1].Compound
                numbers    == {stint_laps[i].LapNumber : i \in DOMAIN stint_laps}
            IN  [compound |-> IF first = NoCompound \/ first = "" THEN "UNKNOWN" ELSE first,
                 startLap |-> MinOf(numbers),
                 endLap   |-> MaxOf(numbers)]]

\* d_laps['Stint'].notna().any()
HasStintIds(d_laps) == \E i \in DOMAIN d_laps : notna(d_laps[i].Stint)

\* The drivers by the position of their last lap, 99 when it is missing.
PitFinishOrder(df) ==
    LET drivers == DriversOf(df)
        pos(d)  == LET d_laps == pick_driver(df, d)
                   IN  or_default(d_laps[Len(d_laps)].Position, 99)
    IN  StableSort(drivers, [i \in DOMAIN drivers |-> <<pos(drivers[i]), 0>>])

\* get_pit_stops()
get_pit_stops(self) ==
    IF no_session(self) THEN Raised("No session loaded")
    ELSE LET sorted_drivers == PitFinishOrder(self.laps)
         IN  Returned([i \in DOMAIN sorted_drivers |->
                 LET d_laps == pick_driver(self.laps, sorted_drivers[i])
                 IN  [driver |-> sorted_drivers[i],
                      color  |-> get_team_color(d_laps[1].Team),
                      stints |-> IF HasStintIds(d_laps) THEN StintGroups(d_laps)
                                 ELSE FallbackStints(d_laps)]])

\* The speed channel of a car trace as samples of interp1d, in 1/TimeTick
\* km/h so that an interpolated speed is a whole number.
SpeedSamples(car) ==
    [k \in DOMAIN car |-> [Distance |-> car[k].Distance, Time |-> car[k].Speed * TimeTick]]

\* compare_drivers(driver1, driver2)
compare_drivers(self, driver1, driver2) ==
    IF no_session(self) THEN Raised("No session loaded")
    ELSE LET d1_laps == pick_driver(self.laps, driver1)
             d2_laps == pick_driver(self.laps, driver2)
             lap1    == pick_fastest(d1_laps)
             lap2    == pick_fastest(d2_laps)
         IN  IF lap1 = 0 \/ lap2 = 0 THEN Raised("AttributeError")
             ELSE LET car1        == d1_laps[lap1].CarData.rows
                      car2        == d2_laps[lap2].CarData.rows
                      m1          == MaxDistance(car1)
                      m2          == MaxDistance(car2)
                      max_dist    == IF m1 < m2 THEN m1 ELSE m2
                      common_dist == arange(max_dist, 10)
                      speed1      == [k \in DOMAIN common_dist |->
                                        interp1d(SpeedSamples(car1), common_dist[k])]
                      speed2      == [k \in DOMAIN common_dist |->
                                        interp1d(SpeedSamples(car2), common_dist[k])]
                  IN  Returned(
                        [driver1  |-> [code |-> driver1,
                                       color |-> get_team_color(d1_laps[1].Team),
                                       speed |-> speed1],
                         driver2  |-> [code |-> driver2,
                                       color |-> get_team_color(d2_laps[1].Team),
                                       speed |-> speed2],
                         distance |-> common_dist,
                         delta    |-> [k \in DOMAIN common_dist |->
                                         FloatSub(speed1[k], speed2[k])],
                         corners  |-> CornersOf(self)])

\* laps.pick_quicklaps(): the laps within 107 % of the fastest lap.
pick_quicklaps(df) ==
    LET times == {df[i].LapTime : i \in DOMAIN df} \ {NaN}
    IN  SelectSeq(df, LAMBDA lap : /\ notna(lap.LapTime)
                                   /\ 100 * lap.LapTime < 107 * MinOf(times))

\* Twice np.median of a list of times that is not empty.
median2(times) ==
    LET n      == Len(times)
        sorted == StableSort(times, [i \in DOMAIN times |-> <<times[i], 0>>])
    IN  IF n % 2 = 1 THEN 2 * sorted[(n + 1) \div 2]
        ELSE sorted[n \div 2] + sorted[n \div 2 + 1]

\* get_lap_distribution(): the second definition of the class, which
\* replaces the first.
get_lap_distribution(self) ==
    IF no_session(self) THEN Raised("No session loaded")
    ELSE LET clean_laps == pick_quicklaps(self.laps)
             drivers    == DriversOf(clean_laps)
             result     == [i \in DOMAIN drivers |->
                              LET d_laps == pick_driver(clean_laps, drivers[i])
                              IN  [driver   |-> drivers[i],
                                   color    |-> get_team_color(d_laps[1].Team),
                                   lapTimes |-> [k \in DOMAIN d_laps |-> d_laps[k].LapTime]]]
         IN  Returned([data |-> StableSort(result,
                          [i \in DOMAIN result |-> <<median2(result[i].lapTimes), 0>>])])

\* The speed column of the analysis: SpeedST, else SpeedI1, else SpeedFL.
SpeedColumn(df) ==
    IF \E i \in DOMAIN df : notna(df[i].SpeedST) THEN "SpeedST"
    ELSE IF \E i \in DOMAIN df : notna(df[i].SpeedI1) THEN "SpeedI1"
    ELSE "SpeedFL"

RECURSIVE SumSeq(_)
SumSeq(s) == IF s = <<>> THEN 0 ELSE Head(s) + SumSeq(Tail(s))

\* get_top_speed_analysis(): the average in 1/1000 km/h.
get_top_speed_analysis(self) ==
    IF no_session(self) THEN Raised("No session loaded")
    ELSE LET speed_col == SpeedColumn(self.laps)
             drivers   == DriversOf(self.laps)
             speeds(d) ==
                LET d_laps == pick_driver(self.laps, d)
                    kept   == SelectSeq([k \in DOMAIN d_laps |-> d_laps[k][speed_col]],
                                        LAMBDA v : notna(v) /\ v > 10)
                IN  StableSort(kept, [k \in DOMAIN kept |-> <<0 - kept[k], 0>>])
             top_15(d) == SubSeq(speeds(d), 1, IF Len(speeds(d)) < 15 THEN Len(speeds(d)) ELSE 15)
             fast      == SelectSeq(drivers, LAMBDA d : speeds(d) # <<>>)
             result    == [i \in DOMAIN fast |->
                             [driver     |-> fast[i],
                              team       |-> pick_driver(self.laps, fast[i])[1].Team,
                              color      |-> get_team_color(pick_driver(self.laps, fast[i])[1].Team),
                              top_speeds |-> top_15(fast[i]),
                              average    |-> (1000 * SumSeq(top_15(fast[i]))) \div Len(top_15(fast[i])),
                              max_speed  |-> top_15(fast[i])[1]]]
         IN  Returned([data   |-> StableSort(result,
                                    [i \in DOMAIN result |-> <<0 - result[i].max_speed, 0>>]),
                       metric |-> speed_col])

----------------------------------------------------------------------------
(* The routes of the analyses *)

\* An analysis that worked on the table of the processor itself.
TableChangedInPlace(before, working) == working

\* The table an analysis leaves to the processor: the methods work on
\* frames of their own (sort_values, a filter and .copy() give new frames).
TableAfter(before, working) == before

\* GET /race/gaps
GetRaceGaps ==
    /\ \E c \in Callers :
          reply' = Response(c, "/race/gaps", <<>>, get_race_gaps_v2(Self))
    /\ laps' = TableAfter(laps, sort_values(laps))
    /\ UNCHANGED <<session, session_info, callers, last_load, loaded, notProc>>

\* GET /analysis/fuel/{driver_code}
GetFuelAnalysis ==
    /\ \E c \in Callers, code \in RouteCodes :
          reply' = Response(c, "/analysis/fuel", <<upper(code)>>,
                            get_fuel_corrected_laps(Self, upper(code)))
    /\ laps' = TableAfter(laps, valid_laps(laps))
    /\ UNCHANGED <<session, session_info, callers, last_load, loaded, notProc>>

\* GET /analysis/ghost/{driver1}/{driver2}
GetGhostAnalysis ==
    /\ \E c \in Callers, code1 \in RouteCodes :
       \E code2 \in RouteCodes \ {code1} :
          reply' = Response(c, "/analysis/ghost", <<upper(code1), upper(code2)>>,
                            get_ghost_trace(Self, upper(code1), upper(code2)))
    /\ laps' = TableAfter(laps,
                  [i \in DOMAIN laps |->
                      [laps[i] EXCEPT !.CarData = CarTelemetry(laps[i])]])
    /\ UNCHANGED <<session, session_info, callers, last_load, loaded, notProc>>

\* GET /analysis/theoretical_best/{driver_code}
GetTheoreticalBest ==
    /\ \E c \in Callers, code \in RouteCodes :
          \E call \in TheoreticalBest(Self, upper(code)) :
              reply' = Response(c, "/analysis/theoretical_best", <<upper(code)>>, call)
    /\ laps' = TableAfter(laps, pick_accurate(laps))
    /\ UNCHANGED <<session, session_info, callers, last_load, loaded, notProc>>

\* GET /telemetry/driver/{driver_code}
GetDriverLaps ==
    /\ \E c \in Callers, code \in RouteCodes :
          /\ reply' = Response(c, "/telemetry/driver", <<upper(code)>>,
                               get_driver_laps(Self, upper(code)))
          /\ laps' = TableAfter(laps, pick_driver(laps, upper(code)))
    /\ UNCHANGED <<session, session_info, callers, last_load, loaded, notProc>>

\* GET /race/pitstops
GetPitStops ==
    /\ \E c \in Callers :
          reply' = Response(c, "/race/pitstops", <<>>, get_pit_stops(Self))
    /\ laps' = TableAfter(laps, SortByLapNumber(laps))
    /\ UNCHANGED <<session, session_info, callers, last_load, loaded, notProc>>

\* GET /compare/{driver1}/{driver2}
CompareDrivers ==
    /\ \E c \in Callers, code1 \in RouteCodes :
       \E code2 \in RouteCodes \ {code1} :
          reply' = Response(c, "/compare", <<upper(code1), upper(code2)>>,
                            compare_drivers(Self, upper(code1), upper(code2)))
    /\ UNCHANGED <<laps, session, session_info, callers, last_load, loaded, notProc>>

\* GET /analysis/consistency
GetConsistencyData ==
    /\ \E c \in Callers :
          reply' = Response(c, "/analysis/consistency", <<>>, get_lap_distribution(Self))
    /\ laps' = TableAfter(laps, pick_quicklaps(laps))
    /\ UNCHANGED <<session, session_info, callers, last_load, loaded, notProc>>

\* GET /race/topspeed
GetTopSpeed ==
    /\ \E c \in Callers :
          reply' = Response(c, "/race/topspeed", <<>>, get_top_speed_analysis(Self))
    /\ UNCHANGED <<laps, session, session_info, callers, last_load, loaded, notProc>>

\* The answer to a call that goes to the processor or to the engine
\* without a route: the result or the exception as they are.
Direct(c, name, args, call) ==
    [to     |-> c,
     route  |-> name,
     args   |-> args,
     status |-> 0,
     detail |-> call.raised,
     body   |-> call.result]

\* processor.get_race_gaps(): no route calls it, a client of the module
\* does.
ProcessorRaceGaps ==
    /\ \E c \in Callers :
          reply' = Direct(c, "get_race_gaps", <<>>, get_race_gaps(Self))
    /\ UNCHANGED <<laps, session, session_info, callers, last_load, loaded, notProc>>

\* analysis_engine.calculate_tyre_degradation(laps) on the lap table of the
\* processor: no route calls it, a client of the module does.
SessionTyreDegradation ==
    /\ loaded
    /\ \E c \in Callers :
          reply' = Direct(c, "calculate_tyre_degradation", <<>>,
                            Returned(calculate_tyre_degradation(laps)))
    /\ laps' = TableAfter(laps, clean(laps))
    /\ UNCHANGED <<session, session_info, callers, last_load, loaded, notProc>>

----------------------------------------------------------------------------
(* A component run twice on one input *)

\* The builds of the numerical library: its sort of a frame by one column
\* leaves rows of equal value in their order, or it does not.  A build
\* never changes between two runs.
Builds == {"keeps_ties", "moves_ties"}

\* Variant: the order the sort leaves depends on the run.
build_by_run(build, run) == IF run = 2 THEN "moves_ties" ELSE build

\* The build a run computes with.
build_of(build, run) == build

\* What get_theoretical_best_lap gives on a build.
TheoreticalBestOn(df, driver, build) ==
    LET outcomes == get_theoretical_best_lap(df, driver)
        usable   == UsableLaps(ValidLaps(df, driver))
        kept(o)  == \A k \in DOMAIN o.valid_laps_telemetry :
                        o.valid_laps_telemetry[k] = usable[k].Telemetry.rows
    IN  IF build = "moves_ties" /\ \E o \in outcomes : ~kept(o)
        THEN CHOOSE o \in outcomes : ~kept(o)
        ELSE CHOOSE o \in outcomes : kept(o)

\* The traces handed to the ghost aligner: an even one, a slower one, and
\* one that stands still at the start.
GhostTraces ==
    { [columns |-> TelemetryColumns,
       rows |-> <<[Distance |-> 0, Time |-> 0], [Distance |-> 5, Time |-> TimeTick],
                  [Distance |-> 10, Time |-> 2 * TimeTick]>>],
      [columns |-> TelemetryColumns,
       rows |-> <<[Distance |-> 0, Time |-> 0], [Distance |-> 8, Time |-> 2 * TimeTick],
                  [Distance |-> 16, Time |-> 3 * TimeTick]>>],
      [columns |-> TelemetryColumns,
       rows |-> <<[Distance |-> 0, Time |-> 0], [Distance |-> 0, Time |-> TimeTick],
                  [Distance |-> 5, Time |-> 2 * TimeTick]>>] }

\* The inputs of the two runs: the component, its lap table or its two
\* traces, and its other arguments.
RerunInputs ==
    {[component |-> "race_gaps", laps |-> t, args |-> d, a |-> NoTelemetry, b |-> NoTelemetry] :
        t \in ScenarioTables \cup {ProviderLaps("X"), ProviderLaps("Y")}, d \in RequestLists}
    \cup
    {[component |-> "fuel_correction", laps |-> pick_driver(ProviderLaps(gp), d),
      args |-> <<sf, DefaultBurnRate, DefaultTimeLoss>>, a |-> NoTelemetry, b |-> NoTelemetry] :
        gp \in {"X", "Y"}, d \in {"A", "B"}, sf \in StartFuels}
    \cup
    {[component |-> "tyre_degradation", laps |-> t, args |-> <<>>,
      a |-> NoTelemetry, b |-> NoTelemetry] :
        t \in {Stint("C", StintLen) \o Stint("D", StintLen),
               Stint("D", StintLen) \o Stint("C", StintLen),
               Stint("E", StintLen) \o Stint("D", StintLen) \o Stint("C", StintLen)}}
    \cup
    {[component |-> "ghost_delta", laps |-> <<>>, args |-> <<>>, a |-> ta, b |-> tb] :
        ta \in GhostTraces, tb \in GhostTraces}
    \cup
    {[component |-> "theoretical_best", laps |-> <<BestRow(1, "none", t[Len(t)].Time,
                        [status |-> "ok", columns |-> TimingColumns \cup PositionColumns,
                         rows |-> t])>>,
      args |-> <<"A">>, a |-> NoTelemetry, b |-> NoTelemetry] :
        t \in LapTraces(3)}

\* The result of a component on the input, as the run computes it.
ComponentResult(component, df, args, ta, tb, build) ==
    CASE component = "race_gaps" -> calculate_race_gaps(df, args)
      [] component = "fuel_correction" -> calculate_fuel_correction(df, args[1], args[2], args[3])
      [] component = "tyre_degradation" -> calculate_tyre_degradation(df)
      [] component = "ghost_delta" -> calculate_ghost_delta(ta, tb)
      [] component = "theoretical_best" ->
            LET call == TheoreticalBestOn(df, args[1], build)
            IN  [raised |-> call.raised, result |-> call.result]

\* One of the two runs of the component c that the input is for.
Run(c) ==
    /\ rerun.component = c
    /\ \E run \in {1, 2} :
          /\ ~rerun.runs[run].called
          /\ rerun' = [rerun EXCEPT !.runs[run] =
                         [called |-> TRUE,
                          result |-> ComponentResult(c, laps, rerun.args, telemetry_a,
                                         telemetry_b, build_of(rerun.build, run))]]
    /\ UNCHANGED notRerun

RunRaceGaps == Run("race_gaps")
RunFuelCorrection == Run("fuel_correction")
RunTyreDegradation == Run("tyre_degradation")
RunGhostDelta == Run("ghost_delta")
RunTheoreticalBest == Run("theoretical_best")

InitRerun ==
    /\ \E in \in RerunInputs, build \in Builds :
          /\ laps = in.laps
          /\ telemetry_a = in.a
          /\ telemetry_b = in.b
          /\ rerun = [component |-> in.component, args |-> in.args, build |-> build,
                      runs |-> <<NotRun, NotRun>>]
          /\ loaded = (in.component = "theoretical_best")
    /\ race_gaps = NoCall
    /\ fuel_call = NoFuelCall
    /\ deg_call = NoDegCall
    /\ ghost_call = NoGhostCall
    /\ best_call = NoBestCall
    /\ session = NoSession
    /\ session_info = [k \in {} |-> 0]
    /\ callers = [c \in Callers |-> NoSession]
    /\ reply = NoReply
    /\ last_load = NoLoad

NextRerun ==
    \/ RunRaceGaps
    \/ RunFuelCorrection
    \/ RunTyreDegradation
    \/ RunGhostDelta
    \/ RunTheoreticalBest

SpecRerun == InitRerun /\ [][NextRerun]_vars

----------------------------------------------------------------------------
(* Properties of the two runs *)

RanTwice == rerun.runs[1].called /\ rerun.runs[2].called

----------------------------------------------------------------------------
(* F1Processor.get_lap_telemetry *)

\* Samples of the car data of the lap that the provider delivers.
MaxCarSamples == 5

\* From one sample to the next the car covers 10 m or 11 m.
CarSteps == {10, 11}

\* The pedals at a sample: braking with the throttle closed, braking with
\* the throttle open, and coasting.
Pedals ==
    {[Brake |-> TRUE, Throttle |-> 0], [Brake |-> TRUE, Throttle |-> 100],
     [Brake |-> FALSE, Throttle |-> 0]}

CarSample(d, k, pedals) ==
    [Distance |-> d, Time |-> k * TimeTick, Speed |-> 200 + k,
     Throttle |-> pedals.Throttle, Brake |-> pedals.Brake,
     RPM |-> 11000 + k, nGear |-> 8, DRS |-> 0]

\* car['Braking'] = (car['Brake'] > 0) & (car['Throttle'] < 10)
Braking(row) == row.Brake /\ row.Throttle < 10

\* Variant: a run of exactly 10 m is a zone too.
long_enough_from_ten(span) == span >= 10

\* "row['Distance'] - start_dist > 10"
long_enough(span) == span > 10

\* One pass through the body of "for _, row in car.iterrows()".
BrakingStep(st, row) ==
    IF Braking(row) /\ ~st.is_braking
    THEN [st EXCEPT !.is_braking = TRUE, !.start_dist = row.Distance]
    ELSE IF ~Braking(row) /\ st.is_braking
    THEN [is_braking    |-> FALSE,
          start_dist    |-> st.start_dist,
          braking_zones |-> IF long_enough(row.Distance - st.start_dist)
                            THEN Append(st.braking_zones, <<st.start_dist, row.Distance>>)
                            ELSE st.braking_zones]
    ELSE st

RECURSIVE BrakingScan(_, _)
BrakingScan(st, rows) ==
    IF rows = <<>> THEN st ELSE BrakingScan(BrakingStep(st, Head(rows)), Tail(rows))

\* The braking zones of the car data of a lap.
BrakingZones(rows) ==
    BrakingScan([is_braking |-> FALSE, start_dist |-> 0, braking_zones |-> <<>>],
                rows).braking_zones

\* _clean_array: NaN becomes None.
clean_array(arr) == [k \in DOMAIN arr |-> IF arr[k] = NaN THEN None ELSE arr[k]]

\* The car data of a lap with the column the method adds to its own frame.
WithBraking(rows) ==
    [k \in DOMAIN rows |->
        [Distance |-> rows[k].Distance, Time |-> rows[k].Time, Speed |-> rows[k].Speed,
         Throttle |-> rows[k].Throttle, Brake |-> rows[k].Brake, RPM |-> rows[k].RPM,
         nGear |-> rows[k].nGear, DRS |-> rows[k].DRS, Braking |-> Braking(rows[k])]]

\* get_lap_telemetry(driver_code, lap_number)
get_lap_telemetry(self, driver_code, lap_number) ==
    IF no_session(self) THEN Raised("No session loaded")
    ELSE LET d_laps == pick_driver(self.laps, driver_code)
             found  == SelectSeq(d_laps, LAMBDA r : r.LapNumber = lap_number)
         IN  IF found = <<>> THEN Raised("IndexError")
             ELSE IF found[1].CarData.rows = <<>>
             THEN Raised("Telemetry data not available for this lap")
             ELSE LET car == found[1].CarData.rows
                      col(name) == [k \in DOMAIN car |-> car[k][name]]
                  IN  Returned(
                        [driver       |-> driver_code,
                         lapNumber    |-> lap_number,
                         color        |-> get_team_color(d_laps[1].Team),
                         distance     |-> clean_array(col("Distance")),
                         speed        |-> clean_array(col("Speed")),
                         throttle     |-> clean_array(col("Throttle")),
                         brake        |-> clean_array([k \in DOMAIN car |->
                                             IF car[k].Brake THEN 1 ELSE 0]),
                         rpm          |-> clean_array(col("RPM")),
                         gear         |-> clean_array(col("nGear")),
                         drs          |-> clean_array(col("DRS")),
                         brakingZones |-> BrakingZones(car),
                         corners      |-> CornersOf(self)])

\* The processor before any request.
InitProc ==
    /\ laps = <<>>
    /\ race_gaps = NoCall
    /\ fuel_call = NoFuelCall
    /\ deg_call = NoDegCall
    /\ NoGhost
    /\ NoBest
    /\ NoProc

----------------------------------------------------------------------------
(* Specification of the lap telemetry *)

\* The lap of the session: lap 1 of driver A, its car data still to come.
TelemetryLap ==
    [ProviderRow("A", 1, 900000, 1, 900000, 1, 0) EXCEPT !.CarData.rows = <<>>]

\* load_session has returned: the processor holds the session of the lap.
LoadTelemetrySession ==
    /\ ~loaded
    /\ reply = NoReply
    /\ loaded' = TRUE
    /\ laps' = <<TelemetryLap>>
    /\ session' = [year |-> 2023, gp |-> "X"]
    /\ session_info' = SessionInfo(2023, "X", <<TelemetryLap>>)
    /\ UNCHANGED <<callers, reply, last_load, notProc>>

\* The provider delivers the next sample of the car data of the lap.
LoadCarSample ==
    /\ loaded
    /\ reply = NoReply
    /\ Len(laps[1].CarData.rows) < MaxCarSamples
    /\ \E step \in CarSteps, pedals \in Pedals :
          LET car == laps[1].CarData.rows
              d   == IF car = <<>> THEN 0 ELSE car[Len(car)].Distance + step
          IN  /\ car = <<>> => step = 10
              /\ laps' = [laps EXCEPT ![1].CarData.rows =
                             Append(car, CarSample(d, Len(car), pedals))]
    /\ UNCHANGED <<loaded, procVars, notProc>>

\* The laps a caller asks for: the lap of the session, a lap it does not
\* have, a driver it does not have.
LapRequests == {<<"A", 1>>, <<"A", 2>>, <<"b", 1>>}

\* GET /telemetry/lap/{driver_code}/{lap_number}
GetLapTelemetry ==
    /\ \E c \in Callers, req \in LapRequests :
          reply' = Response(c, "/telemetry/lap", <<upper(req[1]), req[2]>>,
                            get_lap_telemetry(Self, upper(req[1]), req[2]))
    /\ laps' = TableAfter(laps,
                  [i \in DOMAIN laps |->
                      [laps[i] EXCEPT !.CarData.rows = WithBraking(@)]])
    /\ UNCHANGED <<session, session_info, callers, last_load, loaded, notProc>>

InitTel == InitProc

NextTel ==
    \/ LoadTelemetrySession
    \/ LoadCarSample
    \/ GetLapTelemetry

SpecTel == InitTel /\ [][NextTel]_vars

----------------------------------------------------------------------------
(* Properties of the braking zones *)

\* The lap telemetry has been returned.
TelemetryReturned == reply.route = "/telemetry/lap" /\ reply.status = 200

\* The car data of the lap the response is about.
Car == laps[1].CarData.rows

\* Samples i .. j are a maximal run of braking samples.
BrakingRun(i, j) ==
    /\ i \in DOMAIN Car /\ j \in DOMAIN Car /\ i <= j
    /\ \A k \in i .. j : Braking(Car[k])
    /\ i = 1 \/ ~Braking(Car[i - 1])
    /\ j = Len(Car) \/ ~Braking(Car[j + 1])

\* C25: the braking zones come from a two-state scan of the samples in
\* order: a zone [start, end] is emitted only where a braking run ends,
\* start is the distance of the first sample of that run, end - start > 10 m
\* for every zone, and the zones are ascending and do not overlap.
C25_ZonesAreEndedRunsOverTenMetres ==
    TelemetryReturned =>
        LET zones == reply.body.brakingZones
        IN  /\ \A z \in DOMAIN zones :
                  /\ zones[z][2] - zones[z][1] > 10
                  /\ \E i \in DOMAIN Car, j \in DOMAIN Car :
                        /\ BrakingRun(i, j)
                        /\ j < Len(Car)
                        /\ zones[z][1] = Car[i].Distance
                        /\ zones[z][2] = Car[j + 1].Distance
            /\ \A z \in 1 .. Len(zones) - 1 : zones[z][2] <= zones[z + 1][1]

\* A zone has been emitted beside a run that ended after exactly 10 m.
C25_ZoneBesideRunOfTenMetres ==
    /\ TelemetryReturned
    /\ Len(reply.body.brakingZones) >= 1
    /\ \E i \in DOMAIN Car, j \in DOMAIN Car :
          /\ BrakingRun(i, j)
          /\ j < Len(Car)
          /\ Car[j + 1].Distance - Car[i].Distance = 10

\* The zones that start at the first sample of the run i .. j.
ZonesOfRun(i) ==
    {z \in DOMAIN reply.body.brakingZones : reply.body.brakingZones[z][1] = Car[i].Distance}

\* C26: every maximal run of consecutive braking samples that spans more
\* than 10 m gives exactly one zone, whether a sample without braking ends
\* the run or the run is still going at the last sample of the lap.
C26_EveryLongRunGivesOneZone ==
    TelemetryReturned =>
        \A i \in DOMAIN Car, j \in DOMAIN Car :
            (BrakingRun(i, j) /\ Car[j].Distance - Car[i].Distance > 10) =>
                Cardinality(ZonesOfRun(i)) = 1

\* What the code does: a run gives a zone when a sample without braking
\* follows it more than 10 m after its first sample, and only then; a run
\* that lasts to the end of the lap gives none.
EndedRunsGiveZones ==
    TelemetryReturned =>
        \A i \in DOMAIN Car, j \in DOMAIN Car :
            BrakingRun(i, j) =>
                Cardinality(ZonesOfRun(i))
                    = IF j < Len(Car) /\ Car[j + 1].Distance - Car[i].Distance > 10
                      THEN 1 ELSE 0

----------------------------------------------------------------------------
(* Specification of the processor and its callers *)

NextProc ==
    \/ InitSession
    \/ GetRaceGaps
    \/ GetFuelAnalysis
    \/ GetGhostAnalysis
    \/ GetTheoreticalBest
    \/ GetLapTelemetry
    \/ GetDriverLaps
    \/ GetPitStops
    \/ CompareDrivers
    \/ GetConsistencyData
    \/ GetTopSpeed
    \/ ProcessorRaceGaps
    \/ SessionTyreDegradation

SpecProc == InitProc /\ [][NextProc]_vars

----------------------------------------------------------------------------
(* Properties of the processor and its callers *)

\* The processor that holds the session of a key, loaded.
Holding(key) == load_session(key.year, key.gp, "ok").self

\* The outcomes a method of the processor self can have for a route and
\* its arguments.
Outcomes(self, route, args) ==
    CASE route = "/race/gaps" -> {get_race_gaps_v2(self)}
      [] route = "/analysis/fuel" -> {get_fuel_corrected_laps(self, args[1])}
      [] route = "/analysis/ghost" -> {get_ghost_trace(self, args[1], args[2])}
      [] route = "/analysis/theoretical_best" -> TheoreticalBest(self, args[1])
      [] route = "/telemetry/lap" -> {get_lap_telemetry(self, args[1], args[2])}
      [] route = "/telemetry/driver" -> {get_driver_laps(self, args[1])}
      [] route = "/race/pitstops" -> {get_pit_stops(self)}
      [] route = "/compare" -> {compare_drivers(self, args[1], args[2])}
      [] route = "/analysis/consistency" -> {get_lap_distribution(self)}
      [] route = "/race/topspeed" -> {get_top_speed_analysis(self)}
      [] route = "get_race_gaps" -> {get_race_gaps(self)}
      [] route = "calculate_tyre_degradation" ->
            {Returned(calculate_tyre_degradation(self.laps))}
      [] OTHER -> {}

\* The calls that go to the processor or to the engine without a route.
DirectCalls == {"get_race_gaps", "calculate_tyre_degradation"}

\* What a caller gets for a call.
Answer(c, route, args, call) ==
    IF route \in DirectCalls THEN Direct(c, route, args, call)
    ELSE Response(c, route, args, call)

\* The responses a caller can get from a processor.
Responses(self, c, route, args) ==
    {Answer(c, route, args, call) : call \in Outcomes(self, route, args)}

\* The response handled last answers an analysis request.
AnalysisReply == reply.to \in Callers /\ reply.route # "/session/init"

\* The two callers hold different sessions, each returned by its own
\* init_session.
DifferentSessions ==
    /\ \A c \in Callers : callers[c] # NoSession
    /\ callers[1] # callers[2]

\* C22: for two callers that each load a different session and then
\* request an analysis, under every interleaving of their requests each
\* analysis result is computed from the session the same caller loaded.
C22_ResultFromOwnSession ==
    (DifferentSessions /\ AnalysisReply) =>
        reply \in Responses(Holding(callers[reply.to]), reply.to, reply.route, reply.args)

\* What the code does: there is one processor for all callers, and every
\* analysis result is computed from what the processor holds, that is from
\* the session whose load_session was invoked last, by whichever caller.
ResultFromSharedProcessor ==
    AnalysisReply =>
        /\ reply \in Responses(Self, reply.to, reply.route, reply.args)
        /\ last_load.returned => Self = Holding(last_load.key)
        /\ ~last_load.returned => ~loaded

NoSessionLoaded ==
    Answer(reply.to, reply.route, reply.args, Raised("No session loaded"))

\* C27: after load_session is invoked for a session Y, whether it returns
\* or raises, no later analysis call returns data derived from a session X
\* loaded before that invocation: every later analysis call either uses
\* Y's laps or raises 'No session loaded'.
C27_NothingFromEarlierSession ==
    (last_load.invoked /\ AnalysisReply) =>
        \/ reply \in Responses(Holding(last_load.key), reply.to, reply.route, reply.args)
        \/ reply = NoSessionLoaded

\* A caller loaded a session X, then load_session was invoked for another
\* session Y and raised, and an analysis was requested after that.
C27_AnalysisAfterFailedReload ==
    /\ last_load.invoked
    /\ ~last_load.returned
    /\ \E c \in Callers : callers[c] # NoSession /\ callers[c] # last_load.key
    /\ AnalysisReply
    /\ reply = NoSessionLoaded

\* The last load_session raised 'Failed to load session'.
LoadFailed == last_load.invoked /\ ~last_load.returned

\* C28: load_session is all-or-nothing: if it raises 'Failed to load
\* session', the processor is left with session, laps and session_info all
\* cleared, so every analysis call raises 'No session loaded' until a later
\* load_session succeeds; laps is never set while session_info is empty.
C28_FailedLoadClearsAll ==
    /\ LoadFailed =>
          /\ session = NoSession
          /\ ~loaded
          /\ DOMAIN session_info = {}
          /\ AnalysisReply => reply = NoSessionLoaded
    /\ loaded => DOMAIN session_info # {}

\* What the code does: after a failed load the lap table and session_info
\* are cleared and the analyses raise, but self.session keeps the session
\* object when the failure came from self.session.load().
FailedLoadLeavesNoLapTable ==
    /\ LoadFailed =>
          /\ session \in {NoSession, [year |-> IF last_load.key.year >= 2025 THEN 2023
                                               ELSE last_load.key.year,
                                      gp   |-> last_load.key.gp]}
          /\ ~loaded
          /\ DOMAIN session_info = {}
          /\ AnalysisReply => reply = NoSessionLoaded
    /\ loaded => DOMAIN session_info # {}

\* One of the eleven analysis operations of the processor is called.
AnalysisCall ==
    \/ GetDriverLaps
    \/ GetLapTelemetry
    \/ ProcessorRaceGaps
    \/ GetRaceGaps
    \/ GetPitStops
    \/ CompareDrivers
    \/ GetFuelAnalysis
    \/ GetConsistencyData
    \/ GetGhostAnalysis
    \/ GetTopSpeed
    \/ GetTheoreticalBest

\* The operations of the processor that a route calls.
AnalysisRoutes ==
    {"/telemetry/driver", "/telemetry/lap", "/race/gaps", "/race/pitstops", "/compare",
     "/analysis/fuel", "/analysis/consistency", "/analysis/ghost", "/race/topspeed",
     "/analysis/theoretical_best"}

\* C29: whenever no lap table is loaded, every analysis operation of the
\* processor raises 'No session loaded', returns no data and leaves the
\* processor state unchanged; the route layer turns it into an HTTP 500.
C29_NoSessionLoadedRaises ==
    [][(~loaded /\ AnalysisCall) =>
          /\ reply'.detail = "No session loaded"
          /\ reply'.body = <<>>
          /\ reply'.route \in AnalysisRoutes => reply'.status = 500
          /\ UNCHANGED <<session, loaded, laps, session_info>>]_vars

\* Before the first load_session an analysis was requested through a route
\* and answered with the HTTP 500 'No session loaded'.
C29_AnalysisBeforeFirstLoad ==
    /\ ~last_load.invoked
    /\ ~loaded
    /\ reply.route \in AnalysisRoutes
    /\ reply.status = 500
    /\ reply.detail = "No session loaded"

----------------------------------------------------------------------------
(* Specification of the pit stop strategy *)

\* Rows of the lap table of the session.
MaxPitRows == 3

\* The lap numbers a row can have.
PitLapNumbers == 1 .. 3

\* The compounds a row can have: two compounds and a missing one.
PitCompounds == {"SOFT", "HARD", NoCompound}

\* A row of a session that records no stint ids.
PitRow(d, n, compound) ==
    [ProviderRow(d, n, 900000 * n, DriverOrd(d), 900000, NaN, 0)
        EXCEPT !.Compound = compound]

\* load_session has returned: the processor holds a session whose laps are
\* still to come.
LoadPitSession ==
    /\ ~loaded
    /\ reply = NoReply
    /\ loaded' = TRUE
    /\ laps' = <<>>
    /\ session' = [year |-> 2023, gp |-> "Y"]
    /\ session_info' = SessionInfo(2023, "Y", <<>>)
    /\ UNCHANGED <<callers, reply, last_load, notProc>>

\* The provider delivers a lap of a driver, in any order of the lap
\* numbers; a driver has one row per lap number.
LoadPitLap ==
    /\ loaded
    /\ reply = NoReply
    /\ Len(laps) < MaxPitRows
    /\ \E d \in TableDrivers, n \in PitLapNumbers, compound \in PitCompounds :
          /\ \A i \in DOMAIN laps : ~(laps[i].Driver = d /\ laps[i].LapNumber = n)
          /\ laps' = Append(laps, PitRow(d, n, compound))
    /\ UNCHANGED <<loaded, procVars, notProc>>

InitPit == InitProc

NextPit ==
    \/ LoadPitSession
    \/ LoadPitLap
    \/ GetPitStops

SpecPit == InitPit /\ [][NextPit]_vars

----------------------------------------------------------------------------
(* Properties of the pit stop strategy *)

\* The pit stop strategy has been returned.
PitStopsReturned == reply.route = "/race/pitstops" /\ reply.status = 200

\* The lap numbers of a driver in the lap table.
LapNumbersOf(d) == {laps[i].LapNumber : i \in {j \in DOMAIN laps : laps[j].Driver = d}}

\* C30: the stints that get_pit_stops detects by change of compound, when
\* no stint ids are recorded, partition the lap range of the driver: the
\* first stint starts at the driver's first lap, each following stint
\* starts at the previous stint's endLap + 1, the last stint ends at the
\* driver's greatest lap number, startLap <= endLap in every stint, and two
\* consecutive stints never have the same compound, a missing compound
\* counting as UNKNOWN.
C30_FallbackStintsPartitionLaps ==
    PitStopsReturned =>
        \A e \in DOMAIN reply.body :
            LET stints  == reply.body[e].stints
                numbers == LapNumbersOf(reply.body[e].driver)
            IN  /\ stints # <<>>
                /\ stints[1].startLap = MinOf(numbers)
                /\ stints[Len(stints)].endLap = MaxOf(numbers)
                /\ \A k \in DOMAIN stints : stints[k].startLap <= stints[k].endLap
                /\ \A k \in 2 .. Len(stints) :
                      /\ stints[k].startLap = stints[k - 1].endLap + 1
                      /\ stints[k].compound # stints[k - 1].compound
                /\ \A k \in DOMAIN stints : stints[k].compound # NoCompound

\* A driver whose laps arrived out of order, with a lap number missing and
\* a compound missing, has got two stints, one of them UNKNOWN.
C30_TwoStintsOverMissingLap ==
    /\ PitStopsReturned
    /\ \E e \in DOMAIN reply.body :
          LET stints == reply.body[e].stints
              d      == reply.body[e].driver
              mine   == pick_driver(laps, d)
          IN  /\ Len(stints) = 2
              /\ \E k \in DOMAIN stints : stints[k].compound = "UNKNOWN"
              /\ LapNumbersOf(d) = {1, 3}
              /\ mine[1].LapNumber = 3

====
